---------------------------- MODULE Spec2Model ----------------------------
(***************************************************************************)
(* A model of gui/src/installer/step/descriptor.rs: the installer steps    *)
(* RegisterDescriptor and DefineDescriptor (with its key import modal      *)
(* EditXpubModal), as state machines driven by the messages that           *)
(* Step::update handles and by the completions of the commands it returns. *)
(*                                                                         *)
(* Conventions.  Option<T> is a sequence of length 0 (None) or 1           *)
(* (Some(x)).  Vec indices are 0-based as in the source: element i of a    *)
(* Vec v is v[i + 1].  A Command returned by update is an asynchronous     *)
(* task: it is put in a bag of in-flight tasks and its resulting message   *)
(* is handled by a later step, in any order with the other messages.       *)
(***************************************************************************)
EXTENDS Integers, Sequences, FiniteSets, Bags, TLC

VARIABLES
    ctx,         \* the installer's Context, shared by the steps
    reg,         \* the RegisterDescriptor step (struct fields)
    reg_tasks,   \* in-flight register_wallet futures (a bag of devices)
    reg_lists,   \* number of in-flight list_hardware_wallets futures
    dd,          \* the DefineDescriptor step (struct fields; modal: the EditXpubModal)
    dd_lists,    \* number of in-flight list_hardware_wallets futures of the modal
    dd_xpubs,    \* in-flight get_extended_pubkey futures (a bag of requests)
    dd_edits,    \* in-flight DefineKey::Edited messages of ConfirmXpub (a bag)
    px,          \* the ParticipateXpub step (struct fields)
    px_tasks,    \* in-flight get_extended_pubkey futures of ParticipateXpub (a bag)
    px_lists,    \* number of in-flight list_hardware_wallets futures of ParticipateXpub
    last,        \* the message handled by the last step and the Command returned
    panicked     \* TRUE once a handler panicked (unwrap of None, index out of range)

vars == <<ctx, reg, reg_tasks, reg_lists, dd, dd_lists, dd_xpubs, dd_edits,
          px, px_tasks, px_lists, last, panicked>>

\* the variables of each step
regvars == <<reg, reg_tasks, reg_lists>>
defvars == <<dd, dd_lists, dd_xpubs, dd_edits>>
pxvars == <<px, px_tasks, px_lists>>

-----------------------------------------------------------------------------
(* Bounds of the model. *)

\* at most this many register_wallet futures in flight at once
MaxInflight == 2
\* at most this many list_hardware_wallets futures in flight at once
MaxLists == 1
\* at most this many devices in a list_hardware_wallets result
MaxHws == 2
\* at most this many entries in ctx.hws
MaxContextHws == 3

-----------------------------------------------------------------------------
(* Option<T> *)

None == <<>>
Some(x) == <<x>>
IsSome(o) == Len(o) = 1
Unwrap(o) == o[1]

\* The message handled and the Command that update returned for it.
Handled(m, a, c) == [msg |-> m, args |-> a, cmd |-> c]

-----------------------------------------------------------------------------
(* Hardware wallets, as list_hardware_wallets reports them. *)

\* HardwareWallet::Supported { device, kind, fingerprint, .. }
Supported(k, f) == [supported |-> TRUE, kind |-> k, fingerprint |-> Some(f)]
\* HardwareWallet::Unsupported { kind, .. }: it has no fingerprint
Unsupported(k) == [supported |-> FALSE, kind |-> k, fingerprint |-> None]

HardwareWallets ==
    {Supported("Ledger", 1), Supported("Specter", 2), Unsupported("Ledger")}

\* the results list_hardware_wallets can deliver: the lists of at most n
\* distinct devices
HwListsUpTo(n) ==
    UNION {{l \in [1..k -> HardwareWallets] :
                \A a, b \in 1..k : a # b => l[a] # l[b]} : k \in 0..n}

\* the acknowledgment token of register_wallet: Option<[u8; 32]>
Hmacs == {None, Some("hmac")}
DeviceErrors == {"DeviceError"}

-----------------------------------------------------------------------------
(* Keys: miniscript's DescriptorPublicKey and bip32's ChildNumber *)

\* ChildNumber::Hardened { index } and ChildNumber::Normal { index }
Hardened(n) == [hardened |-> TRUE, index |-> n]
Normal(n) == [hardened |-> FALSE, index |-> n]

\* #[derive(PartialOrd, Ord)] on ChildNumber: variant order (Normal before
\* Hardened), then index
ChildNumberGt(a, b) ==
    \/ a.hardened /\ ~b.hardened
    \/ a.hardened = b.hardened /\ a.index > b.index

\* an ExtendedPubKey: the network its encoding is tagged with, and the key
\* material, named by the master key (fingerprint) and the path it derives from
ExtendedPubKey(net, master, path) == [network |-> net, master |-> master, path |-> path]

\* ExtendedPubKey::fingerprint: of a master key, the fingerprint that names
\* it; of a derived key, a hash that is no master's fingerprint
XkeyFingerprint(xkey) ==
    IF xkey.path = <<>> THEN xkey.master ELSE 100 + xkey.master

\* DescriptorPublicKey::XPub(DescriptorXKey { origin, xkey, derivation_path:
\* master, wildcard: None })
XPub(origin, xkey) == [variant |-> "XPub", origin |-> origin, xkey |-> xkey]

\* DescriptorPublicKey::Single(SinglePub { origin, key }): a public key that
\* is not an extended key, named by a number
Single(origin, key) == [variant |-> "Single", origin |-> origin, key |-> key]

\* DescriptorPublicKey::master_fingerprint: the origin's fingerprint when the
\* key has an origin, the fingerprint of the key itself otherwise (of a single
\* key, a hash that is no master's fingerprint)
master_fingerprint(key) ==
    IF IsSome(key.origin) THEN Unwrap(key.origin).fingerprint
    ELSE IF key.variant = "Single" THEN 200 + key.key
    ELSE XkeyFingerprint(key.xkey)

\* fn check_key_network
check_key_network(key, network) ==
    IF key.variant \in {"XPub", "MultiXPub"}
    THEN IF network = "Bitcoin" THEN key.xkey.network = "Bitcoin"
         ELSE key.xkey.network = "Testnet"
    ELSE TRUE

-----------------------------------------------------------------------------
(* DescriptorKey: one key slot *)

\* impl Default for DescriptorKey
DescriptorKeyDefault ==
    [name |-> "", valid |-> TRUE, key |-> None,
     duplicate_key |-> FALSE, duplicate_name |-> FALSE]

\* DescriptorKey::check_network
check_network(slot, network) ==
    IF IsSome(slot.key)
    THEN [slot EXCEPT !.valid = check_key_network(Unwrap(slot.key), network)]
    ELSE slot

\* a Vec with f applied to each element (iter_mut)
MapSeq(f(_), v) == [j \in 1..Len(v) |-> f(v[j])]

\* Vec::remove(i), for i < len
RemoveAt(v, i) == [j \in 1..(Len(v) - 1) |-> IF j <= i THEN v[j] ELSE v[j + 1]]

-----------------------------------------------------------------------------
(* DefineDescriptor: duplicate detection *)

\* the HashMap all_names as a set of <<name, fingerprint>> entries
MapGet(map, k) ==
    IF \E e \in map : e[1] = k THEN Some((CHOOSE e \in map : e[1] = k)[2]) ELSE None

\* HashMap::insert(k, v): replaces the entry of k
MapInsert(map, k, v) == {e \in map : e[1] # k} \cup {<<k, v>>}

\* the four collections check_for_duplicate starts with
ScanStart ==
    [all_keys |-> {}, duplicate_keys |-> {}, all_names |-> {}, duplicate_names |-> {}]

\* ScanSlot that puts a name in duplicate_names whenever all_names has it,
\* without comparing the fingerprints
ScanSlot_FlagsRepeatedAlias(acc, slot) ==
    IF IsSome(slot.key)
    THEN LET key == Unwrap(slot.key)
             fg == MapGet(acc.all_names, slot.name)
             names == IF IsSome(fg)
                      THEN [acc EXCEPT !.duplicate_names = @ \cup {slot.name}]
                      ELSE [acc EXCEPT !.all_names =
                               MapInsert(@, slot.name, master_fingerprint(key))]
         IN  IF key \in names.all_keys
             THEN [names EXCEPT !.duplicate_keys = @ \cup {key}]
             ELSE [names EXCEPT !.all_keys = @ \cup {key}]
    ELSE acc

\* the body of the two scanning loops of check_for_duplicate, for one slot
ScanSlot(acc, slot) ==
    IF IsSome(slot.key)
    THEN LET key == Unwrap(slot.key)
             fg == MapGet(acc.all_names, slot.name)
             names == IF IsSome(fg)
                      THEN IF Unwrap(fg) # master_fingerprint(key)
                           THEN [acc EXCEPT !.duplicate_names = @ \cup {slot.name}]
                           ELSE acc
                      ELSE [acc EXCEPT !.all_names =
                               MapInsert(@, slot.name, master_fingerprint(key))]
         IN  IF key \in names.all_keys
             THEN [names EXCEPT !.duplicate_keys = @ \cup {key}]
             ELSE [names EXCEPT !.all_keys = @ \cup {key}]
    ELSE acc

\* one scanning loop: the slots of a branch in order
RECURSIVE ScanSlots(_, _)
ScanSlots(acc, slots) ==
    IF slots = <<>> THEN acc
    ELSE ScanSlots(ScanSlot(acc, Head(slots)), Tail(slots))

\* the loop over spending_keys.iter_mut(): both flags
MarkSpending(acc, slot) ==
    LET named == [slot EXCEPT !.duplicate_name = slot.name \in acc.duplicate_names]
    IN  IF IsSome(slot.key)
        THEN [named EXCEPT !.duplicate_key = Unwrap(slot.key) \in acc.duplicate_keys]
        ELSE named

\* the loop over recovery_keys.iter_mut(): duplicate_key only
MarkRecovery(acc, slot) ==
    IF IsSome(slot.key)
    THEN [slot EXCEPT !.duplicate_key = Unwrap(slot.key) \in acc.duplicate_keys]
    ELSE slot

\* check_for_duplicate whose scan stops after the spending keys
check_for_duplicate_SpendingScanOnly(d) ==
    LET acc == ScanSlots(ScanStart, d.spending_keys)
        spend(slot) == MarkSpending(acc, slot)
        recov(slot) == MarkRecovery(acc, slot)
    IN  [d EXCEPT !.spending_keys = MapSeq(spend, @),
                  !.recovery_keys = MapSeq(recov, @)]

\* DefineDescriptor::check_for_duplicate, on the step d
check_for_duplicate(d) ==
    LET acc == ScanSlots(ScanSlots(ScanStart, d.spending_keys), d.recovery_keys)
        spend(slot) == MarkSpending(acc, slot)
        recov(slot) == MarkRecovery(acc, slot)
    IN  [d EXCEPT !.spending_keys = MapSeq(spend, @),
                  !.recovery_keys = MapSeq(recov, @)]

\* edit_alias_for_key_with_same_fingerprint without its loop over recovery_keys
edit_alias_for_key_with_same_fingerprint_SpendingOnly(d, name, fingerprint) ==
    LET rename(slot) ==
            IF IsSome(slot.key) /\ master_fingerprint(Unwrap(slot.key)) = fingerprint
            THEN [slot EXCEPT !.name = name]
            ELSE slot
    IN  [d EXCEPT !.spending_keys = MapSeq(rename, @)]

\* DefineDescriptor::edit_alias_for_key_with_same_fingerprint, on the step d
edit_alias_for_key_with_same_fingerprint(d, name, fingerprint) ==
    LET rename(slot) ==
            IF IsSome(slot.key) /\ master_fingerprint(Unwrap(slot.key)) = fingerprint
            THEN [slot EXCEPT !.name = name]
            ELSE slot
    IN  [d EXCEPT !.spending_keys = MapSeq(rename, @),
                  !.recovery_keys = MapSeq(rename, @)]

-----------------------------------------------------------------------------
(* DefineDescriptor: the step *)

\* the software signer's fingerprint (Signer::generate, fixed for the step)
SignerFingerprint == 3

\* Signer: the key Signer::generate drew, named by its fingerprint, and the
\* network it encodes keys for
Signer(fingerprint, network) == [fingerprint |-> fingerprint, network |-> network]

\* Signer::set_network
SignerSetNetwork(signer, network) == [signer EXCEPT !.network = network]

\* form::Value<String>
FormValue(value, valid) == [value |-> value, valid |-> valid]

\* DefineDescriptor::new
DefineDescriptorNew ==
    [network            |-> "Bitcoin",
     network_valid      |-> TRUE,
     data_dir           |-> None,
     spending_keys      |-> <<DescriptorKeyDefault>>,
     spending_threshold |-> 1,
     recovery_keys      |-> <<DescriptorKeyDefault>>,
     recovery_threshold |-> 1,
     sequence           |-> FormValue(<<>>, TRUE),
     modal              |-> None,
     signer             |-> Signer(SignerFingerprint, "Bitcoin"),
     error              |-> None]

\* the installer's Context: the fields the steps read and write, for the
\* network the installer was started for; descriptor is None until a step
\* sets it
ContextNew(network, descriptor) ==
    [network    |-> network,
     data_dir   |-> "datadir",
     keys       |-> <<>>,
     descriptor |-> descriptor,
     signer     |-> None,
     hws        |-> <<>>]

\* the keys of one branch: self.recovery_keys if is_recovery, else self.spending_keys
BranchKeys(d, is_recovery) ==
    IF is_recovery THEN d.recovery_keys ELSE d.spending_keys

\* Arc::get_mut that does not see the clone in ctx.signer
HeldByContext_Never(signer) == FALSE

\* ctx.signer is a clone of the Arc of the signer
HeldByContext(signer) ==
    IsSome(ctx.signer) /\ Unwrap(ctx.signer).fingerprint = signer.fingerprint

\* Arc::get_mut(&mut self.signer) is Some: the step is the only holder of the
\* signer (an open modal and ctx.signer each hold a clone)
SignerIsExclusive(d) == d.modal = None /\ ~HeldByContext(d.signer)

\* set_network that checks the spending keys only
set_network_SpendingOnly(d, network, exists) ==
    LET check(slot) == check_network(slot, network)
    IN  [d EXCEPT
           !.network = network,
           !.signer = IF SignerIsExclusive(d) THEN SignerSetNetwork(@, network) ELSE @,
           !.network_valid = IF IsSome(d.data_dir) THEN ~exists ELSE @,
           !.spending_keys = MapSeq(check, @)]

\* DefineDescriptor::set_network on the step d; exists: whether the network's
\* directory exists under data_dir
set_network(d, network, exists) ==
    LET check(slot) == check_network(slot, network)
    IN  [d EXCEPT
           !.network = network,
           !.signer = IF SignerIsExclusive(d) THEN SignerSetNetwork(@, network) ELSE @,
           !.network_valid = IF IsSome(d.data_dir) THEN ~exists ELSE @,
           !.spending_keys = MapSeq(check, @),
           !.recovery_keys = MapSeq(check, @)]

\* str::parse::<u16>: an optional '+', then one or more decimal digits whose
\* value fits 16 bits.  A text is the sequence of its characters.
Digits == <<"0", "1", "2", "3", "4", "5", "6", "7", "8", "9">>
IsDigit(c) == \E n \in 1..10 : Digits[n] = c
DigitValue(c) == (CHOOSE n \in 1..10 : Digits[n] = c) - 1

RECURSIVE DecimalValue(_, _)
\* the value of a digit string, saturating above u16::MAX as checked_mul/add fail
DecimalValue(text, sofar) ==
    IF text = <<>> THEN sofar
    ELSE IF sofar > 65535 THEN sofar
    ELSE DecimalValue(Tail(text), sofar * 10 + DigitValue(Head(text)))

ParsesAsU16(text) ==
    LET digits == IF text # <<>> /\ Head(text) = "+" THEN Tail(text) ELSE text
    IN  /\ digits # <<>>
        /\ \A n \in 1..Len(digits) : IsDigit(digits[n])
        /\ DecimalValue(digits, 0) <= 65535

\* update: self.error = None, before the match on the message
ClearError(d) == [d EXCEPT !.error = None]

\* update(Message::Close)
OnClose(d) == [ClearError(d) EXCEPT !.modal = None]

\* update(Message::Network(network))
OnNetwork(d, network, exists) == set_network(ClearError(d), network, exists)

\* update(DefineDescriptor::ThresholdEdited(is_recovery, value))
OnThresholdEdited(d, is_recovery, value) ==
    IF is_recovery
    THEN [ClearError(d) EXCEPT !.recovery_threshold = value]
    ELSE [ClearError(d) EXCEPT !.spending_threshold = value]

\* SequenceEdited that stores whatever text it is given
OnSequenceEdited_StoresAnyText(d, seq) ==
    [ClearError(d) EXCEPT !.sequence = FormValue(seq, TRUE)]

\* update(DefineDescriptor::SequenceEdited(seq))
OnSequenceEdited(d, seq) ==
    [ClearError(d) EXCEPT
        !.sequence = FormValue(IF seq = <<>> \/ ParsesAsU16(seq) THEN seq ELSE @.value,
                               TRUE)]

\* update(DefineDescriptor::AddKey(is_recovery))
OnAddKey(d, is_recovery) ==
    IF is_recovery
    THEN [ClearError(d) EXCEPT !.recovery_keys = Append(@, DescriptorKeyDefault),
                               !.recovery_threshold = @ + 1]
    ELSE [ClearError(d) EXCEPT !.spending_keys = Append(@, DescriptorKeyDefault),
                               !.spending_threshold = @ + 1]

\* the slot written by DefineKey::Edited
EditedSlot(slot, name, key, network) ==
    check_network([slot EXCEPT !.name = name, !.key = Some(key)], network)

\* update(DefineDescriptor::Key(is_recovery, i, DefineKey::Edited(name, key)))
OnKeyEdited(d, is_recovery, i, name, key) ==
    LET aliased == edit_alias_for_key_with_same_fingerprint(
                       ClearError(d), name, master_fingerprint(key))
        written ==
            IF is_recovery
            THEN IF i < Len(aliased.recovery_keys)
                 THEN [aliased EXCEPT !.recovery_keys[i + 1] =
                          EditedSlot(@, name, key, d.network)]
                 ELSE aliased
            ELSE IF i < Len(aliased.spending_keys)
                 THEN [aliased EXCEPT !.spending_keys[i + 1] =
                          EditedSlot(@, name, key, d.network)]
                 ELSE aliased
    IN  check_for_duplicate([written EXCEPT !.modal = None])

\* update(DefineDescriptor::Key(is_recovery, i, DefineKey::Delete)), for an
\* index Vec::remove accepts
OnKeyDelete(d, is_recovery, i) ==
    LET removed ==
            IF is_recovery
            THEN [ClearError(d) EXCEPT
                    !.recovery_keys = RemoveAt(@, i),
                    !.recovery_threshold =
                        IF @ > Len(d.recovery_keys) - 1 THEN @ - 1 ELSE @]
            ELSE [ClearError(d) EXCEPT
                    !.spending_keys = RemoveAt(@, i),
                    !.spending_threshold =
                        IF @ > Len(d.spending_keys) - 1 THEN @ - 1 ELSE @]
    IN  check_for_duplicate(removed)

-----------------------------------------------------------------------------
(* ParticipateXpub: the step *)

\* the fingerprint of the signer ParticipateXpub::new generates
ParticipantFingerprint == 4

\* HardwareWalletXpubs::new
HardwareWalletXpubsNew(hw) ==
    [hw           |-> hw,
     xpubs        |-> <<>>,
     processing   |-> FALSE,
     error        |-> None,
     next_account |-> Hardened(0)]

\* SignerXpubs::new
SignerXpubsNew(signer) ==
    [signer |-> signer, xpubs |-> <<>>, next_account |-> Hardened(0)]

\* ParticipateXpub::new
ParticipateXpubNew ==
    [network       |-> "Bitcoin",
     network_valid |-> TRUE,
     data_dir      |-> None,
     shared        |-> FALSE,
     xpubs_hw      |-> <<>>,
     xpubs_signer  |-> SignerXpubsNew(Signer(ParticipantFingerprint, "Bitcoin"))]

\* the step after construction, no future in flight
InitParticipate ==
    /\ px = ParticipateXpubNew
    /\ px_tasks = EmptyBag
    /\ px_lists = 0

-----------------------------------------------------------------------------
(* RegisterDescriptor *)

\* the MultipathDescriptor an earlier step left in ctx.descriptor
CompiledDescriptor == "wsh(or_d(multi(..),and_v(v:multi(..),older(n))))"

\* #[derive(Default)] struct RegisterDescriptor
RegisterDescriptorDefault ==
    [descriptor |-> None,
     processing |-> FALSE,
     chosen_hw  |-> None,
     hws        |-> <<>>,
     hmacs      |-> <<>>,
     registered |-> {},
     error      |-> None,
     done       |-> FALSE]

\* Step::load_context: self.descriptor = ctx.descriptor.clone()
RegLoadContext ==
    /\ ~panicked
    /\ reg' = [reg EXCEPT !.descriptor = ctx.descriptor]
    /\ last' = Handled("load_context", <<>>, None)
    /\ UNCHANGED <<defvars, ctx, reg_tasks, reg_lists, panicked, pxvars>>

\* Step::load: one list_hardware_wallets future, resolved as ConnectedHardwareWallets
RegLoad ==
    /\ ~panicked
    /\ reg_lists < MaxLists
    /\ reg_lists' = reg_lists + 1
    /\ last' = Handled("load", <<>>, Some("list_hardware_wallets"))
    /\ UNCHANGED <<defvars, ctx, reg, reg_tasks, panicked, pxvars>>

\* the first element of hws with the given fingerprint:
\* self.hws.iter().find(|hw_h| hw_h.fingerprint() == Some(fingerprint))
FindHw(hws, f) ==
    LET hits == {j \in 1..Len(hws) : hws[j].fingerprint = Some(f)}
    IN  IF hits = {} THEN None
        ELSE Some(hws[CHOOSE j \in hits : \A k \in hits : j <= k])

\* RegSelect without the test of self.registered
RegSelect_NoRegisteredCheck(i) ==
    /\ ~panicked
    /\ IF i < Len(reg.hws) /\ reg.hws[i + 1].supported
       THEN IF reg.descriptor = None
            THEN /\ panicked' = TRUE
                 /\ last' = Handled("Select", <<i>>, None)
                 /\ UNCHANGED <<defvars, ctx, reg, reg_tasks, reg_lists, pxvars>>
            ELSE /\ BagCardinality(reg_tasks) < MaxInflight
                 /\ reg' = [reg EXCEPT !.chosen_hw = Some(i),
                                       !.processing = TRUE,
                                       !.error = None]
                 /\ reg_tasks' = reg_tasks (+) SetToBag({reg.hws[i + 1]})
                 /\ last' = Handled("Select", <<i>>, Some(reg.hws[i + 1]))
                 /\ UNCHANGED <<defvars, ctx, reg_lists, panicked, pxvars>>
       ELSE /\ last' = Handled("Select", <<i>>, None)
            /\ UNCHANGED <<defvars, ctx, reg, reg_tasks, reg_lists, panicked, pxvars>>

\* update(Message::Select(i))
RegSelect(i) ==
    /\ ~panicked
    /\ IF i < Len(reg.hws) /\ reg.hws[i + 1].supported
          /\ Unwrap(reg.hws[i + 1].fingerprint) \notin reg.registered
       THEN IF reg.descriptor = None
            THEN \* self.descriptor.as_ref().unwrap() on None
                 /\ panicked' = TRUE
                 /\ last' = Handled("Select", <<i>>, None)
                 /\ UNCHANGED <<defvars, ctx, reg, reg_tasks, reg_lists, pxvars>>
            ELSE /\ BagCardinality(reg_tasks) < MaxInflight
                 /\ reg' = [reg EXCEPT !.chosen_hw = Some(i),
                                       !.processing = TRUE,
                                       !.error = None]
                 /\ reg_tasks' = reg_tasks (+) SetToBag({reg.hws[i + 1]})
                 /\ last' = Handled("Select", <<i>>, Some(reg.hws[i + 1]))
                 /\ UNCHANGED <<defvars, ctx, reg_lists, panicked, pxvars>>
       ELSE /\ last' = Handled("Select", <<i>>, None)
            /\ UNCHANGED <<defvars, ctx, reg, reg_tasks, reg_lists, panicked, pxvars>>

\* async fn register_wallet: the results the future started for device hw can
\* have: Ok((fingerprint, hmac)) with the fingerprint it was given, or Err(e)
RegisterWalletResults(hw) ==
    {[ok |-> TRUE, fingerprint |-> Unwrap(hw.fingerprint), hmac |-> h, error |-> None]
        : h \in Hmacs}
    \cup {[ok |-> FALSE, fingerprint |-> Unwrap(hw.fingerprint), hmac |-> None,
           error |-> Some(e)] : e \in DeviceErrors}

\* RegWalletRegistered that records the device before looking at the result
RegWalletRegistered_RecordsOnError(hw, res) ==
    /\ ~panicked
    /\ BagIn(hw, reg_tasks)
    /\ res \in RegisterWalletResults(hw)
    /\ reg_tasks' = reg_tasks (-) SetToBag({hw})
    /\ LET found == FindHw(reg.hws, res.fingerprint)
           cleared == [reg EXCEPT !.processing = FALSE, !.chosen_hw = None]
           recorded == IF IsSome(found)
                       THEN [cleared EXCEPT
                               !.registered = @ \cup {res.fingerprint},
                               !.hmacs = Append(@, <<res.fingerprint,
                                                     Unwrap(found).kind, res.hmac>>)]
                       ELSE cleared
       IN  reg' = IF res.ok THEN recorded ELSE [recorded EXCEPT !.error = res.error]
    /\ last' = Handled("WalletRegistered", <<res, hw>>, None)
    /\ UNCHANGED <<defvars, ctx, reg_lists, panicked, pxvars>>

\* update(Message::WalletRegistered(res)), res being the result of the
\* in-flight future started for device hw
RegWalletRegistered(hw, res) ==
    /\ ~panicked
    /\ BagIn(hw, reg_tasks)
    /\ res \in RegisterWalletResults(hw)
    /\ reg_tasks' = reg_tasks (-) SetToBag({hw})
    /\ LET found == FindHw(reg.hws, res.fingerprint)
           cleared == [reg EXCEPT !.processing = FALSE, !.chosen_hw = None]
       IN  reg' = IF res.ok
                  THEN IF IsSome(found)
                       THEN [cleared EXCEPT
                               !.registered = @ \cup {res.fingerprint},
                               !.hmacs = Append(@, <<res.fingerprint,
                                                     Unwrap(found).kind, res.hmac>>)]
                       ELSE cleared
                  ELSE [cleared EXCEPT !.error = res.error]
    /\ last' = Handled("WalletRegistered", <<res, hw>>, None)
    /\ UNCHANGED <<defvars, ctx, reg_lists, panicked, pxvars>>

\* update(Message::ConnectedHardwareWallets(hws)): the result of an in-flight
\* list_hardware_wallets future
RegConnectedHardwareWallets(hws) ==
    /\ ~panicked
    /\ reg_lists > 0
    /\ reg_lists' = reg_lists - 1
    /\ reg' = [reg EXCEPT !.hws = hws]
    /\ last' = Handled("ConnectedHardwareWallets", <<>>, None)
    /\ UNCHANGED <<defvars, ctx, reg_tasks, panicked, pxvars>>

\* update(Message::Reload): self.hws = Vec::new(); return self.load()
RegReload ==
    /\ ~panicked
    /\ reg_lists < MaxLists
    /\ reg_lists' = reg_lists + 1
    /\ reg' = [reg EXCEPT !.hws = <<>>]
    /\ last' = Handled("Reload", <<>>, Some("list_hardware_wallets"))
    /\ UNCHANGED <<defvars, ctx, reg_tasks, panicked, pxvars>>

\* update(Message::UserActionDone(done))
RegUserActionDone(done) ==
    /\ ~panicked
    /\ reg' = [reg EXCEPT !.done = done]
    /\ last' = Handled("UserActionDone", <<>>, None)
    /\ UNCHANGED <<defvars, ctx, reg_tasks, reg_lists, panicked, pxvars>>

InitRegister ==
    /\ ctx \in {ContextNew("Bitcoin", d) : d \in {None, Some(CompiledDescriptor)}}
    /\ dd = DefineDescriptorNew
    /\ dd_lists = 0
    /\ dd_xpubs = EmptyBag
    /\ dd_edits = EmptyBag
    /\ reg = RegisterDescriptorDefault
    /\ reg_tasks = EmptyBag
    /\ reg_lists = 0
    /\ InitParticipate
    /\ last = Handled("new", <<>>, None)
    /\ panicked = FALSE

\* the messages that read or write the registration state; done, which
\* UserActionDone writes, is read by apply and view only
NextRegister ==
    \/ RegLoadContext
    \/ RegLoad
    \/ \E i \in 0..MaxHws : RegSelect(i)
    \/ \E hw \in BagToSet(reg_tasks) : \E res \in RegisterWalletResults(hw) :
          RegWalletRegistered(hw, res)
    \/ \E hws \in HwListsUpTo(MaxHws) : RegConnectedHardwareWallets(hws)
    \/ RegReload

SpecRegister == InitRegister /\ [][NextRegister]_vars

\* the entries apply pushes into ctx.hws, one per entry of hmacs:
\* (kind, fingerprint, token)
ContextEntries(hmacs) == [j \in 1..Len(hmacs) |-> <<hmacs[j][2], hmacs[j][1], hmacs[j][3]>>]

\* Step::apply: returns true
RegApply ==
    /\ ~panicked
    /\ Len(ctx.hws) + Len(reg.hmacs) <= MaxContextHws
    /\ ctx' = [ctx EXCEPT !.hws = @ \o ContextEntries(reg.hmacs)]
    /\ last' = Handled("RegisterDescriptor::apply", <<TRUE>>, None)
    /\ UNCHANGED <<regvars, defvars, panicked, pxvars>>

\* the registrations of one device and apply, the installer coming back to
\* the step: load_context, load, the list with the device, Select, its
\* completions and apply
NextRegisterApply ==
    \/ RegLoadContext
    \/ RegLoad
    \/ RegConnectedHardwareWallets(<<Supported("Ledger", 1)>>)
    \/ RegSelect(0)
    \/ \E hw \in BagToSet(reg_tasks) : \E res \in RegisterWalletResults(hw) :
          RegWalletRegistered(hw, res)
    \/ RegApply

SpecRegisterApply == InitRegister /\ [][NextRegisterApply]_vars

\* the runtime delivers the completion of a register_wallet future in flight
RegDeliver ==
    \E hw \in BagToSet(reg_tasks) : \E res \in RegisterWalletResults(hw) :
        RegWalletRegistered(hw, res)

\* the step with its futures run to completion: Command::perform hands the
\* future to the runtime, which polls it and delivers Message::WalletRegistered
NextRegisterFair ==
    \/ RegLoadContext
    \/ RegLoad
    \/ \E hws \in HwListsUpTo(1) : RegConnectedHardwareWallets(hws)
    \/ \E i \in 0..1 : RegSelect(i)
    \/ RegDeliver
    \/ RegReload

SpecRegisterFair ==
    InitRegister /\ [][NextRegisterFair]_vars /\ WF_vars(RegDeliver)

\* every message of the step
NextRegisterDone ==
    \/ NextRegister
    \/ \E done \in BOOLEAN : RegUserActionDone(done)

SpecRegisterDone == InitRegister /\ [][NextRegisterDone]_vars

-----------------------------------------------------------------------------
(* DefineDescriptor: the messages of the key slot registry *)

\* at most this many key slots, over both branches
MaxSlots == 2
\* the thresholds ThresholdEdited carries: 0..MaxThreshold
MaxThreshold == 2

\* the slot indices the messages carry; the last is out of range whenever the
\* other branch has a slot
SlotIndices == 0..(MaxSlots - 1)

\* a step of DefineDescriptor::update that leaves the in-flight futures alone
DefUpdate(new, m, a) ==
    /\ ~panicked
    /\ dd' = new
    /\ last' = Handled(m, a, None)
    /\ UNCHANGED <<ctx, regvars, dd_lists, dd_xpubs, dd_edits, panicked, pxvars>>

DefClose == DefUpdate(OnClose(dd), "Close", <<>>)

DefNetwork(network, exists) ==
    DefUpdate(OnNetwork(dd, network, exists), "Network", <<network>>)

DefThresholdEdited(is_recovery, value) ==
    DefUpdate(OnThresholdEdited(dd, is_recovery, value), "ThresholdEdited",
              <<is_recovery, value>>)

DefSequenceEdited(seq) ==
    DefUpdate(OnSequenceEdited(dd, seq), "SequenceEdited", <<seq>>)

DefAddKey(is_recovery) ==
    /\ Len(dd.spending_keys) + Len(dd.recovery_keys) < MaxSlots
    /\ DefUpdate(OnAddKey(dd, is_recovery), "AddKey", <<is_recovery>>)

\* DefineKey::Edited with any name and key: ConfirmXpub sends the name and
\* the key parsed from the text of the modal's form, which the user may type
DefKeyEdited(is_recovery, i, name, key) ==
    DefUpdate(OnKeyEdited(dd, is_recovery, i, name, key), "Edited",
              <<name, master_fingerprint(key)>>)

\* DefineKey::Delete: Vec::remove(i) panics when i is out of range
DefKeyDelete(is_recovery, i) ==
    IF i < Len(BranchKeys(dd, is_recovery))
    THEN DefUpdate(OnKeyDelete(dd, is_recovery, i), "Delete", <<is_recovery, i>>)
    ELSE /\ ~panicked
         /\ panicked' = TRUE
         /\ last' = Handled("Delete", <<is_recovery, i>>, None)
         /\ UNCHANGED <<ctx, regvars, defvars, pxvars>>

\* the derivation path 48'/coin'/account/2'
StandardPath(coin, account) ==
    <<Hardened(48), Hardened(coin), account, Hardened(2)>>

\* an XPub with an origin, as a device with that fingerprint derives it
DerivedKey(net, fingerprint, path) ==
    XPub(Some([fingerprint |-> fingerprint, path |-> path]),
         ExtendedPubKey(net, fingerprint, path))

\* the keys the Edited messages of the registry specification carry: two
\* accounts of master 1 tagged for the test networks, and the master key 2
\* itself, without origin, tagged for mainnet
RegistryKeys ==
    {DerivedKey("Testnet", 1, StandardPath(1, Hardened(0))),
     DerivedKey("Testnet", 1, StandardPath(1, Hardened(1))),
     XPub(None, ExtendedPubKey("Bitcoin", 2, <<>>))}

Aliases == {"alice", "bob"}
Networks == {"Bitcoin", "Signet"}
SequenceTexts ==
    {<<>>, <<"1", "0", "0", "0">>, <<"6", "5", "5", "3", "6">>, <<"1", "e", "3">>}

InitDefine ==
    /\ ctx = ContextNew("Bitcoin", None)
    /\ reg = RegisterDescriptorDefault
    /\ reg_tasks = EmptyBag
    /\ reg_lists = 0
    /\ dd = DefineDescriptorNew
    /\ dd_lists = 0
    /\ dd_xpubs = EmptyBag
    /\ dd_edits = EmptyBag
    /\ InitParticipate
    /\ last = Handled("new", <<>>, None)
    /\ panicked = FALSE

\* whether the directory of the network exists under data_dir: read by
\* set_network only when data_dir is set
DirExists == IF IsSome(dd.data_dir) THEN BOOLEAN ELSE {FALSE}

\* the messages of the registry, their arguments drawn from the given sets
NextRegistry(keys, aliases, thresholds, texts) ==
    \/ DefClose
    \/ \E n \in Networks : \E exists \in DirExists : DefNetwork(n, exists)
    \/ \E r \in BOOLEAN : \E v \in thresholds : DefThresholdEdited(r, v)
    \/ \E seq \in texts : DefSequenceEdited(seq)
    \/ \E r \in BOOLEAN : DefAddKey(r)
    \/ \E r \in BOOLEAN : \E i \in SlotIndices : \E name \in aliases :
          \E key \in keys : DefKeyEdited(r, i, name, key)
    \/ \E r \in BOOLEAN : \E i \in SlotIndices : DefKeyDelete(r, i)

\* the registry under every key and alias, with thresholds and timelock that
\* no key message reads held to one input each
NextKeys == NextRegistry(RegistryKeys, Aliases, {1}, {<<"1", "e", "3">>})

SpecKeys == InitDefine /\ [][NextKeys]_vars

\* the registry under every threshold and timelock text, with one key and alias
NextThresholds ==
    NextRegistry({DerivedKey("Bitcoin", 2, StandardPath(0, Hardened(0)))}, {"alice"},
                 0..MaxThreshold, SequenceTexts)

SpecThresholds == InitDefine /\ [][NextThresholds]_vars

-----------------------------------------------------------------------------
(* Key texts: Display and FromStr of ChildNumber, DerivationPath and        *)
(* DescriptorPublicKey.  A text is a sequence of tokens: a punctuation mark *)
(* or letter, a numeral, or the base58 encoding of an extended key.         *)

\* the largest child index: 2^31 - 1
MaxChildIndex == 2147483647

NoXkey == ExtendedPubKey("", 0, <<>>)
Sym(s) == [sym |-> s, num |-> 0, xkey |-> NoXkey]
Num(n) == [sym |-> "#", num |-> n, xkey |-> NoXkey]
Xkey(x) == [sym |-> "xkey", num |-> 0, xkey |-> x]
\* the hex encoding of the single public key n
Pubkey(n) == [sym |-> "pubkey", num |-> n, xkey |-> NoXkey]

\* impl Display for ChildNumber: "n'" when hardened, "n" otherwise
ChildNumberToString(c) ==
    IF c.hardened THEN <<Num(c.index), Sym("'")>> ELSE <<Num(c.index)>>

\* the children of a path, each after a "/"
RECURSIVE PathToString(_)
PathToString(path) ==
    IF path = <<>> THEN <<>>
    ELSE <<Sym("/")>> \o ChildNumberToString(Head(path)) \o PathToString(Tail(path))

\* impl Display for DerivationPath: "m" and the children
DerivationPathToString(path) == <<Sym("m")>> \o PathToString(path)

\* str::trim_start_matches('m')
RECURSIVE TrimStartM(_)
TrimStartM(text) ==
    IF text # <<>> /\ Head(text).sym = "m" THEN TrimStartM(Tail(text)) ELSE text

\* the children of a path text: "/" and a numeral of at most 2^31 - 1, hardened when
\* followed by "'" or "h"; None when the text is anything else
RECURSIVE ParseChildren(_, _)
ParseChildren(text, sofar) ==
    IF text = <<>> THEN Some(sofar)
    ELSE IF \/ Head(text).sym # "/"
            \/ Len(text) < 2
            \/ text[2].sym # "#"
            \/ text[2].num > MaxChildIndex
         THEN None
    ELSE IF Len(text) >= 3 /\ text[3].sym \in {"'", "h"}
         THEN ParseChildren(SubSeq(text, 4, Len(text)),
                            Append(sofar, Hardened(text[2].num)))
         ELSE ParseChildren(SubSeq(text, 3, Len(text)),
                            Append(sofar, Normal(text[2].num)))

\* DerivationPath::from_str
DerivationPathFromStr(text) ==
    IF text # <<>> /\ Head(text).sym = "m"
    THEN ParseChildren(Tail(text), <<>>)
    ELSE None

\* impl Display for DescriptorPublicKey (an XPub with the master derivation
\* path and no wildcard, or a Single): "[fingerprint/path]key", or "key"
\* without origin
to_string(key) ==
    LET encoded == IF key.variant = "Single" THEN Pubkey(key.key) ELSE Xkey(key.xkey)
    IN  IF IsSome(key.origin)
        THEN <<Sym("["), Num(Unwrap(key.origin).fingerprint)>>
                 \o PathToString(Unwrap(key.origin).path)
                 \o <<Sym("]"), encoded>>
        ELSE <<encoded>>

\* DescriptorPublicKey::from_str: Some(key), or None for Err
from_str(text) ==
    IF text = <<>> THEN None
    ELSE IF Head(text).sym = "["
    THEN LET closing == {j \in 1..Len(text) : text[j].sym = "]"}
             k == CHOOSE j \in closing : \A l \in closing : j <= l
             path == ParseChildren(SubSeq(text, 3, k - 1), <<>>)
             origin == Some([fingerprint |-> text[2].num, path |-> Unwrap(path)])
         IN  IF /\ closing # {}
                /\ Len(text) >= 2 /\ text[2].sym = "#"
                /\ Len(text) = k + 1 /\ text[k + 1].sym \in {"xkey", "pubkey"}
                /\ IsSome(path)
             THEN IF text[k + 1].sym = "xkey"
                  THEN Some(XPub(origin, text[k + 1].xkey))
                  ELSE Some(Single(origin, text[k + 1].num))
             ELSE None
    ELSE IF Len(text) = 1 /\ Head(text).sym = "xkey"
    THEN Some(XPub(None, Head(text).xkey))
    ELSE IF Len(text) = 1 /\ Head(text).sym = "pubkey"
    THEN Some(Single(None, Head(text).num))
    ELSE None

\* fn generate_derivation_path
generate_derivation_path(network, account_index) ==
    Unwrap(DerivationPathFromStr(
        <<Sym("m"), Sym("/"), Num(48), Sym("'"), Sym("/"),
          Num(IF network = "Bitcoin" THEN 0 ELSE 1), Sym("'"), Sym("/")>>
            \o ChildNumberToString(account_index)
            \o <<Sym("/"), Num(2), Sym("'")>>))

-----------------------------------------------------------------------------
(* DefineDescriptor: what DefineKey::Edit hands to the modal *)

\* the closure update_mapping of fingerprint_account_index_mappping
RECURSIVE update_mapping(_, _)
update_mapping(keys, mapping) ==
    IF keys = <<>> THEN mapping
    ELSE LET slot == Head(keys)
             origin == Unwrap(Unwrap(slot.key).origin)
             index ==
                 IF /\ IsSome(slot.key)
                    /\ Unwrap(slot.key).variant = "XPub"
                    /\ IsSome(Unwrap(slot.key).origin)
                    /\ Len(origin.path) >= 4
                    /\ ChildNumberToString(origin.path[1]) = <<Num(48), Sym("'")>>
                 THEN Some(origin.path[3])
                 ELSE None
             previous_index == MapGet(mapping, origin.fingerprint)
             updated ==
                 IF IsSome(index)
                 THEN IF IsSome(previous_index)
                      THEN IF ChildNumberGt(Unwrap(index), Unwrap(previous_index))
                           THEN MapInsert(mapping, origin.fingerprint, Unwrap(index))
                           ELSE mapping
                      ELSE MapInsert(mapping, origin.fingerprint, Unwrap(index))
                 ELSE mapping
         IN  update_mapping(Tail(keys), updated)

\* DefineDescriptor::fingerprint_account_index_mappping
fingerprint_account_index_mappping(d) ==
    update_mapping(d.recovery_keys, update_mapping(d.spending_keys, {}))

\* one loop of keys_aliases
RECURSIVE InsertAliases(_, _)
InsertAliases(keys, map) ==
    IF keys = <<>> THEN map
    ELSE InsertAliases(
             Tail(keys),
             IF IsSome(Head(keys).key)
             THEN MapInsert(map, master_fingerprint(Unwrap(Head(keys).key)),
                            Head(keys).name)
             ELSE map)

\* DefineDescriptor::keys_aliases
keys_aliases(d) == InsertAliases(d.recovery_keys, InsertAliases(d.spending_keys, {}))

\* EditXpubModal::new; signer is dd.signer, which the modal shares
EditXpubModalNew(name, key, key_index, is_recovery, network, account_indexes, aliases) ==
    [form_name       |-> FormValue(name, TRUE),
     form_xpub       |-> FormValue(IF IsSome(key) THEN to_string(Unwrap(key)) ELSE <<>>,
                                   TRUE),
     keys_aliases    |-> aliases,
     account_indexes |-> account_indexes,
     is_recovery     |-> is_recovery,
     key_index       |-> key_index,
     chosen_hw       |-> None,
     processing      |-> FALSE,
     hws             |-> <<>>,
     error           |-> None,
     network         |-> network,
     edit_name       |-> FALSE,
     chosen_signer   |-> IsSome(key) /\ master_fingerprint(Unwrap(key)) = SignerFingerprint]

-----------------------------------------------------------------------------
(* EditXpubModal: the messages DefineDescriptor::update forwards to it *)

\* at most this many DefineKey::Edited messages of ConfirmXpub in flight
MaxEdits == 1
\* at most this many get_extended_pubkey futures in flight
MaxXpubs == 2
\* the largest account index Select and UseHotSigner derive a key for
MaxAccount == 1

ModalOpen == IsSome(dd.modal)
Modal == Unwrap(dd.modal)

\* update with the modal left as m
WithModal(m) == [ClearError(dd) EXCEPT !.modal = Some(m)]

\* a message the step forwards while no modal is open: only self.error = None
Dropped(m, a) ==
    /\ dd' = ClearError(dd)
    /\ last' = Handled(m, a, None)
    /\ UNCHANGED <<ctx, regvars, dd_lists, dd_xpubs, dd_edits, panicked, pxvars>>

\* update(DefineDescriptor::Key(is_recovery, i, DefineKey::Edit)): opens the
\* modal on slot i and returns its load() command
DefKeyEdit(is_recovery, i) ==
    /\ ~panicked
    /\ IF i < Len(BranchKeys(dd, is_recovery))
       THEN LET slot == BranchKeys(dd, is_recovery)[i + 1]
            IN  /\ dd_lists < MaxLists
                /\ dd' = WithModal(EditXpubModalNew(
                             slot.name, slot.key, i, is_recovery, dd.network,
                             fingerprint_account_index_mappping(dd), keys_aliases(dd)))
                /\ dd_lists' = dd_lists + 1
                /\ last' = Handled("Edit", <<is_recovery, i>>,
                                   Some("list_hardware_wallets"))
                /\ UNCHANGED <<ctx, regvars, dd_xpubs, dd_edits, panicked, pxvars>>
       ELSE Dropped("Edit", <<is_recovery, i>>)

\* ChildNumber::increment is Err: the next index is out of range
IncrementFails(c) == c.index >= MaxChildIndex

\* ChildNumber::increment, for a child number it accepts
increment(c) == [c EXCEPT !.index = @ + 1]

\* the account index Select and UseHotSigner derive for a fingerprint, when
\* increment().unwrap() does not panic
NextAccountIndex(m, fingerprint) ==
    LET account_index == MapGet(m.account_indexes, fingerprint)
    IN  IF IsSome(account_index) THEN increment(Unwrap(account_index))
        ELSE Hardened(0)

\* increment().unwrap() panics for the fingerprint
AccountIndexPanics(m, fingerprint) ==
    LET account_index == MapGet(m.account_indexes, fingerprint)
    IN  IsSome(account_index) /\ IncrementFails(Unwrap(account_index))

\* a handler of the modal panicked
ModalPanic(m, a) ==
    /\ panicked' = TRUE
    /\ last' = Handled(m, a, None)
    /\ UNCHANGED <<ctx, regvars, defvars, pxvars>>

\* EditXpubModal::update(Message::Select(i))
DefSelect(i) ==
    /\ ~panicked
    /\ IF ModalOpen
       THEN IF i < Len(Modal.hws) /\ Modal.hws[i + 1].supported
            THEN LET hw == Modal.hws[i + 1]
                     fingerprint == Unwrap(hw.fingerprint)
                     task == [kind |-> hw.kind,
                              fingerprint |-> fingerprint,
                              path |-> generate_derivation_path(
                                           Modal.network,
                                           NextAccountIndex(Modal, fingerprint))]
                 IN  IF AccountIndexPanics(Modal, fingerprint)
                     THEN ModalPanic("Select", <<i>>)
                     ELSE /\ BagCardinality(dd_xpubs) < MaxXpubs
                          /\ NextAccountIndex(Modal, fingerprint).index <= MaxAccount
                          /\ dd' = WithModal([Modal EXCEPT !.chosen_hw = Some(i),
                                                           !.processing = TRUE])
                          /\ dd_xpubs' = dd_xpubs (+) SetToBag({task})
                          /\ last' = Handled("Select", <<i>>, Some(task))
                          /\ UNCHANGED <<ctx, regvars, dd_lists, dd_edits, panicked, pxvars>>
            ELSE /\ dd' = WithModal(Modal)
                 /\ last' = Handled("Select", <<i>>, None)
                 /\ UNCHANGED <<ctx, regvars, dd_lists, dd_xpubs, dd_edits, panicked, pxvars>>
       ELSE Dropped("Select", <<i>>)

\* self.hws.iter().position(|hw| hw.fingerprint() == Some(fingerprint))
Position(hws, fingerprint) ==
    LET hits == {j \in 1..Len(hws) : hws[j].fingerprint = Some(fingerprint)}
    IN  IF hits = {} THEN None
        ELSE Some((CHOOSE j \in hits : \A k \in hits : j <= k) - 1)

\* EditXpubModal::update(Message::ConnectedHardwareWallets(hws)): the result
\* of an in-flight list_hardware_wallets future
DefConnectedHardwareWallets(hws) ==
    /\ ~panicked
    /\ dd_lists > 0
    /\ dd_lists' = dd_lists - 1
    /\ dd' = IF ModalOpen
             THEN LET key == from_str(Modal.form_xpub.value)
                  IN  WithModal([Modal EXCEPT
                          !.hws = hws,
                          !.chosen_hw =
                              IF IsSome(key)
                              THEN Position(hws, master_fingerprint(Unwrap(key)))
                              ELSE @])
             ELSE ClearError(dd)
    /\ last' = Handled("ConnectedHardwareWallets", <<hws>>, None)
    /\ UNCHANGED <<ctx, regvars, dd_xpubs, dd_edits, panicked, pxvars>>

\* EditXpubModal::update(Message::Reload)
DefReload ==
    /\ ~panicked
    /\ IF ModalOpen
       THEN /\ dd_lists < MaxLists
            /\ dd' = WithModal([Modal EXCEPT !.hws = <<>>])
            /\ dd_lists' = dd_lists + 1
            /\ last' = Handled("Reload", <<>>, Some("list_hardware_wallets"))
            /\ UNCHANGED <<ctx, regvars, dd_xpubs, dd_edits, panicked, pxvars>>
       ELSE Dropped("Reload", <<>>)

\* Signer::get_extended_pubkey: the signer's key at the path, encoded for the
\* signer's network
SignerExtendedPubkey(path) == ExtendedPubKey(dd.signer.network, SignerFingerprint, path)

\* the form after a key of the fingerprint is chosen: its alias if it has
\* one, the name to be edited otherwise (clear: the name is emptied first)
NameForFingerprint(m, fingerprint, clear) ==
    LET alias == MapGet(m.keys_aliases, fingerprint)
    IN  IF IsSome(alias)
        THEN [m EXCEPT !.form_name = FormValue(Unwrap(alias), TRUE),
                       !.edit_name = FALSE]
        ELSE [m EXCEPT !.edit_name = TRUE,
                       !.form_name.value = IF clear THEN "" ELSE @]

\* EditXpubModal::update(Message::UseHotSigner)
DefUseHotSigner ==
    /\ ~panicked
    /\ IF ModalOpen
       THEN IF AccountIndexPanics(Modal, SignerFingerprint)
            THEN ModalPanic("UseHotSigner", <<>>)
            ELSE LET chosen == [Modal EXCEPT !.chosen_hw = None,
                                             !.chosen_signer = TRUE,
                                             !.form_xpub.valid = TRUE]
                     named == NameForFingerprint(chosen, SignerFingerprint, TRUE)
                     derivation_path ==
                         generate_derivation_path(
                             Modal.network, NextAccountIndex(Modal, SignerFingerprint))
                     text == <<Sym("["), Num(SignerFingerprint)>>
                                 \o TrimStartM(DerivationPathToString(derivation_path))
                                 \o <<Sym("]"), Xkey(SignerExtendedPubkey(derivation_path))>>
                 IN  /\ NextAccountIndex(Modal, SignerFingerprint).index <= MaxAccount
                     /\ dd' = WithModal([named EXCEPT !.form_xpub.value = text])
                     /\ last' = Handled("UseHotSigner", <<>>, None)
                     /\ UNCHANGED <<ctx, regvars, dd_lists, dd_xpubs, dd_edits, panicked, pxvars>>
       ELSE Dropped("UseHotSigner", <<>>)

\* the networks a device may encode an extended key for
XkeyNetworks == {"Bitcoin", "Testnet"}

\* async fn get_extended_pubkey: the results of the future started by Select
GetExtendedPubkeyResults(task) ==
    {[ok |-> TRUE,
      key |-> Some(XPub(Some([fingerprint |-> task.fingerprint, path |-> task.path]),
                        ExtendedPubKey(net, task.fingerprint, task.path))),
      error |-> None] : net \in XkeyNetworks}
    \cup {[ok |-> FALSE, key |-> None, error |-> Some(e)] : e \in DeviceErrors}

\* the Err arm of HWXpubImported that keeps the device selected
ImportFailed_KeepsSelection(m, error) == [m EXCEPT !.error = error]

\* the Err(e) arm of HWXpubImported
ImportFailed(m, error) == [m EXCEPT !.chosen_hw = None, !.error = error]

\* EditXpubModal::update(DefineDescriptor::HWXpubImported(res)), res being the
\* result of an in-flight get_extended_pubkey future
DefHWXpubImported(task, res) ==
    /\ ~panicked
    /\ BagIn(task, dd_xpubs)
    /\ res \in GetExtendedPubkeyResults(task)
    /\ dd_xpubs' = dd_xpubs (-) SetToBag({task})
    /\ dd' = IF ModalOpen
             THEN LET idle == [Modal EXCEPT !.processing = FALSE]
                  IN  IF res.ok
                      THEN LET key == Unwrap(res.key)
                               named == NameForFingerprint(
                                            idle, master_fingerprint(key), FALSE)
                           IN  WithModal([named EXCEPT
                                   !.chosen_signer = FALSE,
                                   !.form_xpub = FormValue(to_string(key), TRUE)])
                      ELSE WithModal(ImportFailed(idle, res.error))
             ELSE ClearError(dd)
    /\ last' = Handled("HWXpubImported", <<res>>, None)
    /\ UNCHANGED <<ctx, regvars, dd_lists, dd_edits, panicked, pxvars>>

\* a message of the modal that returns no command
ModalUpdate(m, msg, a) ==
    /\ dd' = WithModal(m)
    /\ last' = Handled(msg, a, None)
    /\ UNCHANGED <<ctx, regvars, dd_lists, dd_xpubs, dd_edits, panicked, pxvars>>

\* EditXpubModal::update(DefineDescriptor::EditName)
DefEditName ==
    /\ ~panicked
    /\ IF ModalOpen
       THEN ModalUpdate([Modal EXCEPT !.edit_name = TRUE], "EditName", <<>>)
       ELSE Dropped("EditName", <<>>)

\* EditXpubModal::update(DefineDescriptor::NameEdited(name))
DefNameEdited(name) ==
    /\ ~panicked
    /\ IF ModalOpen
       THEN ModalUpdate([Modal EXCEPT !.form_name = FormValue(name, TRUE)],
                        "NameEdited", <<name>>)
       ELSE Dropped("NameEdited", <<name>>)

\* EditXpubModal::update(DefineDescriptor::XPubEdited(s))
DefXPubEdited(s) ==
    /\ ~panicked
    /\ IF ModalOpen
       THEN LET key == from_str(s)
                checked ==
                    IF /\ IsSome(key)
                       /\ Unwrap(key).variant = "XPub"
                       /\ IsSome(Unwrap(key).origin)
                    THEN NameForFingerprint([Modal EXCEPT !.form_xpub.valid = TRUE],
                                            Unwrap(Unwrap(key).origin).fingerprint,
                                            FALSE)
                    ELSE [Modal EXCEPT !.form_xpub.valid = FALSE]
            IN  ModalUpdate([checked EXCEPT !.form_xpub.value = s], "XPubEdited", <<s>>)
       ELSE Dropped("XPubEdited", <<s>>)

\* EditXpubModal::update(DefineDescriptor::ConfirmXpub): the command resolves
\* to DefineDescriptor::Key(is_recovery, key_index, DefineKey::Edited(name, key))
DefConfirmXpub ==
    /\ ~panicked
    /\ IF ModalOpen
       THEN LET key == from_str(Modal.form_xpub.value)
                edited == [is_recovery |-> Modal.is_recovery,
                           key_index   |-> Modal.key_index,
                           name        |-> Modal.form_name.value,
                           key         |-> Unwrap(key)]
            IN  IF IsSome(key)
                THEN /\ BagCardinality(dd_edits) < MaxEdits
                     /\ dd' = WithModal(Modal)
                     /\ dd_edits' = dd_edits (+) SetToBag({edited})
                     /\ last' = Handled("ConfirmXpub", <<>>, Some(edited))
                     /\ UNCHANGED <<ctx, regvars, dd_lists, dd_xpubs, panicked, pxvars>>
                ELSE ModalUpdate(Modal, "ConfirmXpub", <<>>)
       ELSE Dropped("ConfirmXpub", <<>>)

\* update(DefineDescriptor::Key(.., DefineKey::Edited(name, key))), the
\* message being the result of an in-flight command of ConfirmXpub
DefKeyEditedDelivered(edited) ==
    /\ ~panicked
    /\ BagIn(edited, dd_edits)
    /\ dd_edits' = dd_edits (-) SetToBag({edited})
    /\ dd' = OnKeyEdited(dd, edited.is_recovery, edited.key_index, edited.name,
                         edited.key)
    /\ last' = Handled("Edited", <<edited.name, master_fingerprint(edited.key)>>, None)
    /\ UNCHANGED <<ctx, regvars, dd_lists, dd_xpubs, panicked, pxvars>>

\* the device lists the modal's list_hardware_wallets futures deliver: the
\* device of master 1
ModalHardwareWallets ==
    {l \in HwListsUpTo(MaxHws) :
        l # <<>> /\ \A j \in 1..Len(l) : l[j] = Supported("Ledger", 1)}

\* the texts typed in the modal: a key of master 1 whose account index is not
\* hardened
TypedTexts ==
    {to_string(DerivedKey("Bitcoin", 1, StandardPath(0, Normal(0))))}

\* the messages that import a key into a slot: those of the modal's widgets
\* while it is open (Select for the devices it lists, once the device has
\* answered the request before), the completions of its
\* commands at any time, and Edit on the slots there are.  texts: the texts typed; lists: the device lists
\* delivered; nets: the networks the devices encode their keys for
NextImport(texts, lists, nets) ==
    \/ DefClose
    \/ \E r \in BOOLEAN : \E i \in SlotIndices :
          i < Len(BranchKeys(dd, r)) /\ DefKeyEdit(r, i)
    \/ \E i \in 0..(MaxHws - 1) :
          /\ ModalOpen /\ i < Len(Modal.hws)
          /\ dd_xpubs = EmptyBag
          /\ DefSelect(i)
    \/ \E hws \in lists : DefConnectedHardwareWallets(hws)
    \/ ModalOpen /\ DefReload
    \/ ModalOpen /\ DefUseHotSigner
    \/ \E task \in BagToSet(dd_xpubs) : \E res \in GetExtendedPubkeyResults(task) :
          /\ res.ok => Unwrap(res.key).xkey.network \in nets
          /\ DefHWXpubImported(task, res)
    \/ \E s \in texts : ModalOpen /\ DefXPubEdited(s)
    \/ ModalOpen /\ DefConfirmXpub
    \/ \E edited \in BagToSet(dd_edits) : DefKeyEditedDelivered(edited)

\* key import on mainnet
NextModal == NextImport(TypedTexts, ModalHardwareWallets, {"Bitcoin"})

SpecModal == InitDefine /\ [][NextModal]_vars

\* a key typed into the modal and confirmed, while slots are added and
\* deleted: Edit on the slots there are, the device list its command
\* delivers, the modal's text field and its confirmation, the delivery of
\* Edited, AddKey and Delete
NextConfirm ==
    \/ DefClose
    \/ \E hws \in ModalHardwareWallets : DefConnectedHardwareWallets(hws)
    \/ \E r \in BOOLEAN : \E i \in SlotIndices :
          i < Len(BranchKeys(dd, r)) /\ DefKeyEdit(r, i)
    \/ \E s \in TypedTexts : ModalOpen /\ DefXPubEdited(s)
    \/ ModalOpen /\ DefConfirmXpub
    \/ \E edited \in BagToSet(dd_edits) : DefKeyEditedDelivered(edited)
    \/ \E r \in BOOLEAN : DefAddKey(r)
    \/ \E r \in BOOLEAN : \E i \in SlotIndices :
          i < Len(BranchKeys(dd, r)) /\ DefKeyDelete(r, i)

SpecConfirm == InitDefine /\ [][NextConfirm]_vars

\* the texts typed in the modal, those it marks invalid included: the key of
\* master 1 with its origin, the same extended key without origin, and a text
\* that is no key
AnyTexts ==
    {to_string(DerivedKey("Bitcoin", 1, StandardPath(0, Hardened(0)))),
     <<Xkey(ExtendedPubKey("Bitcoin", 1, StandardPath(0, Hardened(0))))>>,
     <<Sym("x")>>}

\* texts typed in the modal and confirmed: Edit on the slots there are, the
\* device list, the text field, its confirmation, the delivery of Edited
\* and Close
NextTyped ==
    \/ DefClose
    \/ \E r \in BOOLEAN : \E i \in SlotIndices :
          i < Len(BranchKeys(dd, r)) /\ DefKeyEdit(r, i)
    \/ \E hws \in ModalHardwareWallets : DefConnectedHardwareWallets(hws)
    \/ \E s \in AnyTexts : ModalOpen /\ DefXPubEdited(s)
    \/ ModalOpen /\ DefConfirmXpub
    \/ \E edited \in BagToSet(dd_edits) : DefKeyEditedDelivered(edited)

SpecTyped == InitDefine /\ [][NextTyped]_vars

\* the selection of a device in the modal, again at any time: Edit on the
\* slots there are, the device list, Select, the device's answers, the
\* confirmation of the key and Close
NextSelect ==
    \/ DefClose
    \/ \E r \in BOOLEAN : \E i \in SlotIndices :
          i < Len(BranchKeys(dd, r)) /\ DefKeyEdit(r, i)
    \/ \E hws \in ModalHardwareWallets : DefConnectedHardwareWallets(hws)
    \/ \E i \in 0..(MaxHws - 1) : ModalOpen /\ i < Len(Modal.hws) /\ DefSelect(i)
    \/ \E task \in BagToSet(dd_xpubs) : \E res \in GetExtendedPubkeyResults(task) :
          /\ res.ok => Unwrap(res.key).xkey.network = "Bitcoin"
          /\ DefHWXpubImported(task, res)
    \/ ModalOpen /\ DefConfirmXpub
    \/ \E edited \in BagToSet(dd_edits) : DefKeyEditedDelivered(edited)

SpecSelect == InitDefine /\ [][NextSelect]_vars

-----------------------------------------------------------------------------
(* DefineDescriptor: load_context and apply *)

\* Step::load_context; exists: whether the network's directory exists under
\* ctx.data_dir
load_context(d, c, exists) ==
    set_network([d EXCEPT !.data_dir = Some(c.data_dir)], c.network, exists)

DefLoadContext(exists) ==
    /\ ~panicked
    /\ dd' = load_context(dd, ctx, exists)
    /\ last' = Handled("load_context", <<>>, None)
    /\ UNCHANGED <<ctx, regvars, dd_lists, dd_xpubs, dd_edits, panicked, pxvars>>

\* DescriptorPublicKey::MultiXPub(DescriptorMultiXKey { origin, xkey,
\* derivation_paths: [m/0, m/1], wildcard: Unhardened }) of an XPub
MultiXPub(xpub) ==
    [variant          |-> "MultiXPub",
     origin           |-> xpub.origin,
     xkey             |-> xpub.xkey,
     derivation_paths |->
         <<Unwrap(DerivationPathFromStr(<<Sym("m"), Sym("/"), Num(0)>>)),
           Unwrap(DerivationPathFromStr(<<Sym("m"), Sym("/"), Num(1)>>))>>,
     wildcard         |-> "Unhardened"]

\* a slot apply reads: Some(DescriptorPublicKey::XPub(xpub)) = slot.key
HoldsXPub(slot) == IsSome(slot.key) /\ Unwrap(slot.key).variant = "XPub"

\* one loop of apply over the slots of a branch: the multipath keys pushed
RECURSIVE MultipathKeys(_)
MultipathKeys(slots) ==
    IF slots = <<>> THEN <<>>
    ELSE IF HoldsXPub(Head(slots))
         THEN <<MultiXPub(Unwrap(Head(slots).key))>> \o MultipathKeys(Tail(slots))
         ELSE MultipathKeys(Tail(slots))

\* one loop of apply over the slots of a branch: the KeySettings pushed to
\* ctx.keys, for the keys that have an origin
RECURSIVE KeySettings(_)
KeySettings(slots) ==
    IF slots = <<>> THEN <<>>
    ELSE IF HoldsXPub(Head(slots)) /\ IsSome(Unwrap(Head(slots).key).origin)
         THEN <<[master_fingerprint |-> Unwrap(Unwrap(Head(slots).key).origin).fingerprint,
                 name               |-> Head(slots).name]>>
                  \o KeySettings(Tail(slots))
         ELSE KeySettings(Tail(slots))

\* signer_is_used after both loops of apply
SignerIsUsed(d) ==
    LET settings == KeySettings(d.spending_keys) \o KeySettings(d.recovery_keys)
    IN  \E j \in 1..Len(settings) : settings[j].master_fingerprint = SignerFingerprint

\* the u16 a text that parses stands for
U16Value(text) ==
    DecimalValue(IF Head(text) = "+" THEN Tail(text) ELSE text, 0)

\* Result: Ok(value) and Err(error)
Ok(value) == [ok |-> TRUE, value |-> value]
Err(error) == [ok |-> FALSE, error |-> error]

\* LianaDescKeys::from_single: the key alone, no threshold
from_single(key) == [thresh |-> None, keys |-> <<key>>]

\* LianaDescKeys::from_multi: a thresh-of-n policy over the keys, or a policy
\* error when the threshold is inconsistent with the keys
from_multi(thresh, keys) ==
    IF Len(keys) < 2 THEN Err("insane keys")
    ELSE IF thresh = 0 \/ thresh > Len(keys) THEN Err("invalid threshold")
    ELSE IF \E j, k \in 1..Len(keys) : j # k /\ keys[j] = keys[k]
         THEN Err("duplicate key")
    ELSE Ok([thresh |-> Some(thresh), keys |-> keys])

\* a branch policy is well nested: a key alone, or k of n >= 2 keys with
\* 1 <= k <= n
WellNested(policy) ==
    IF policy.thresh = None THEN Len(policy.keys) = 1
    ELSE /\ Len(policy.keys) >= 2
         /\ Unwrap(policy.thresh) >= 1
         /\ Unwrap(policy.thresh) <= Len(policy.keys)

\* MultipathDescriptor::new: the spending branch available at once, the
\* recovery branch after the timelock; an error when an extended key is in
\* the policy twice, or when the structure is not representable
MultipathDescriptorNew(spending, recovery, timelock) ==
    LET all_keys == spending.keys \o recovery.keys
    IN  IF \E j, k \in 1..Len(all_keys) : j # k /\ all_keys[j].xkey = all_keys[k].xkey
        THEN Err("duplicate key")
        ELSE IF WellNested(spending) /\ WellNested(recovery)
        THEN Ok([spending |-> spending, recovery |-> recovery, timelock |-> timelock])
        ELSE Err("not representable")

\* the LianaDescKeys apply builds for a branch
BranchPolicy(thresh, keys) ==
    IF Len(keys) = 1 THEN Ok(from_single(keys[1])) ELSE from_multi(thresh, keys)

\* what apply writes to ctx and the step before its first return
ApplyStart(d, c) ==
    [d   |-> [d EXCEPT !.sequence.valid = ParsesAsU16(d.sequence.value)],
     ctx |-> [c EXCEPT !.network = d.network,
                       !.keys = KeySettings(d.spending_keys)
                                    \o KeySettings(d.recovery_keys)]]

\* apply that compiles whatever the validity of the network
apply_IgnoresNetworkValid(d, c) ==
    LET start == ApplyStart(d, c)
        spending_keys == MultipathKeys(d.spending_keys)
        recovery_keys == MultipathKeys(d.recovery_keys)
        spending == BranchPolicy(d.spending_threshold, spending_keys)
        recovery == BranchPolicy(d.recovery_threshold, recovery_keys)
        desc == MultipathDescriptorNew(spending.value, recovery.value,
                                       U16Value(d.sequence.value))
        failed(e) == [d      |-> [start.d EXCEPT !.error = Some(e)],
                      ctx    |-> start.ctx,
                      result |-> FALSE]
    IN  IF \/ ~start.d.sequence.valid
           \/ recovery_keys = <<>>
           \/ spending_keys = <<>>
        THEN [d |-> start.d, ctx |-> start.ctx, result |-> FALSE]
        ELSE IF ~spending.ok THEN failed(spending.error)
        ELSE IF ~recovery.ok THEN failed(recovery.error)
        ELSE IF ~desc.ok THEN failed(desc.error)
        ELSE [d      |-> start.d,
              ctx    |-> [start.ctx EXCEPT
                             !.descriptor = Some(desc.value),
                             !.signer = IF SignerIsUsed(d) THEN Some(d.signer) ELSE @],
              result |-> TRUE]

\* DefineDescriptor::apply on the step d and the context c: the step and the
\* context afterwards, and the value returned
apply(d, c) ==
    LET start == ApplyStart(d, c)
        spending_keys == MultipathKeys(d.spending_keys)
        recovery_keys == MultipathKeys(d.recovery_keys)
        spending == BranchPolicy(d.spending_threshold, spending_keys)
        recovery == BranchPolicy(d.recovery_threshold, recovery_keys)
        desc == MultipathDescriptorNew(spending.value, recovery.value,
                                       U16Value(d.sequence.value))
        failed(e) == [d      |-> [start.d EXCEPT !.error = Some(e)],
                      ctx    |-> start.ctx,
                      result |-> FALSE]
    IN  IF \/ ~d.network_valid
           \/ ~start.d.sequence.valid
           \/ recovery_keys = <<>>
           \/ spending_keys = <<>>
        THEN [d |-> start.d, ctx |-> start.ctx, result |-> FALSE]
        ELSE IF ~spending.ok THEN failed(spending.error)
        ELSE IF ~recovery.ok THEN failed(recovery.error)
        ELSE IF ~desc.ok THEN failed(desc.error)
        ELSE [d      |-> start.d,
              ctx    |-> [start.ctx EXCEPT
                             !.descriptor = Some(desc.value),
                             !.signer = IF SignerIsUsed(d) THEN Some(d.signer) ELSE @],
              result |-> TRUE]

\* the installer calls apply on the current step when the user asks for the
\* next one
DefApply ==
    /\ ~panicked
    /\ dd' = apply(dd, ctx).d
    /\ ctx' = apply(dd, ctx).ctx
    /\ last' = Handled("apply", <<apply(dd, ctx).result>>, None)
    /\ UNCHANGED <<regvars, dd_lists, dd_xpubs, dd_edits, panicked, pxvars>>

\* DefineDescriptor::valid, which the view passes on for its Next button
valid(d) ==
    /\ d.spending_keys # <<>>
    /\ d.recovery_keys # <<>>
    /\ d.sequence.value # <<>>
    /\ ~\E j \in 1..Len(d.spending_keys) : d.spending_keys[j].key = None
    /\ ~\E j \in 1..Len(d.spending_keys) : d.spending_keys[j].key = None

\* the keys assembled: the first mainnet account of the software signer and
\* of the device of master 1
AssembleKeys ==
    {DerivedKey("Bitcoin", SignerFingerprint, StandardPath(0, Hardened(0))),
     DerivedKey("Bitcoin", 1, StandardPath(0, Hardened(0)))}

\* the timelock texts typed: nothing, and a u16
AssembleTexts == {<<>>, <<"1", "0", "0", "0">>}

\* the installer started for one of the networks, the step just constructed
InitAssemble ==
    /\ ctx \in {ContextNew(n, None) : n \in Networks}
    /\ reg = RegisterDescriptorDefault
    /\ reg_tasks = EmptyBag
    /\ reg_lists = 0
    /\ dd = DefineDescriptorNew
    /\ dd_lists = 0
    /\ dd_xpubs = EmptyBag
    /\ dd_edits = EmptyBag
    /\ InitParticipate
    /\ last = Handled("new", <<>>, None)
    /\ panicked = FALSE

\* the step of one slot a branch as the installer drives it: load_context,
\* the messages that set what apply reads, and apply
NextAssemble ==
    \/ \E exists \in BOOLEAN : DefLoadContext(exists)
    \/ \E r \in BOOLEAN : \E v \in 1..MaxThreshold : DefThresholdEdited(r, v)
    \/ \E seq \in AssembleTexts : DefSequenceEdited(seq)
    \/ \E r \in BOOLEAN : \E key \in AssembleKeys : DefKeyEdited(r, 0, "alice", key)
    \/ DefApply

SpecAssemble == InitAssemble /\ [][NextAssemble]_vars

\* the keys of a step whose keys get replaced: the assembled keys and the
\* first mainnet account of the device of master 2
ReplaceKeys ==
    AssembleKeys \cup {DerivedKey("Bitcoin", 2, StandardPath(0, Hardened(0)))}

\* the step of one slot a branch applied again after the user came back to
\* it and replaced keys
NextReplace ==
    \/ \E r \in BOOLEAN : \E v \in 1..MaxThreshold : DefThresholdEdited(r, v)
    \/ DefSequenceEdited(<<"1", "0", "0", "0">>)
    \/ \E r \in BOOLEAN : \E key \in ReplaceKeys : DefKeyEdited(r, 0, "alice", key)
    \/ DefApply

SpecReplace == InitDefine /\ [][NextReplace]_vars

\* the step of one slot a branch under every timelock text, with the keys
\* that let apply get past its first return
NextTimelock ==
    \/ \E seq \in SequenceTexts : DefSequenceEdited(seq)
    \/ \E r \in BOOLEAN : \E key \in AssembleKeys : DefKeyEdited(r, 0, "alice", key)
    \/ DefApply

SpecTimelock == InitDefine /\ [][NextTimelock]_vars

\* at most this many key slots over both branches, in the specification of
\* the branch policies
MaxPolicySlots == 3

\* AddKey while there is room
DefAddPolicyKey(is_recovery) ==
    /\ Len(dd.spending_keys) + Len(dd.recovery_keys) < MaxPolicySlots
    /\ DefUpdate(OnAddKey(dd, is_recovery), "AddKey", <<is_recovery>>)

\* the keys of the branch policies: the first mainnet account of the devices
\* of masters 1 and 2, and what the text of a single public key with the
\* software signer's fingerprint, typed in the modal, parses as
PolicyKeys ==
    {DerivedKey("Bitcoin", 1, StandardPath(0, Hardened(0))),
     DerivedKey("Bitcoin", 2, StandardPath(0, Hardened(0))),
     Unwrap(from_str(<<Sym("["), Num(SignerFingerprint)>>
                         \o PathToString(StandardPath(0, Hardened(0)))
                         \o <<Sym("]"), Pubkey(1)>>))}

\* the step with slots added, on mainnet with one timelock text
NextPolicies ==
    \/ \E r \in BOOLEAN : \E v \in 1..MaxThreshold : DefThresholdEdited(r, v)
    \/ DefSequenceEdited(<<"1", "0", "0", "0">>)
    \/ \E r \in BOOLEAN : DefAddPolicyKey(r)
    \/ \E r \in BOOLEAN : \E i \in 0..(MaxPolicySlots - 2) : \E key \in PolicyKeys :
          i < Len(BranchKeys(dd, r)) /\ DefKeyEdited(r, i, "alice", key)
    \/ DefApply

SpecPolicies == InitDefine /\ [][NextPolicies]_vars

-----------------------------------------------------------------------------
(* ParticipateXpub: the messages of the step, load_context and apply *)

\* HardwareWalletXpubs::reset
HardwareWalletXpubsReset(h) ==
    [h EXCEPT !.error = None, !.next_account = Hardened(0), !.xpubs = <<>>]

\* SignerXpubs::reset
SignerXpubsReset(x) == [x EXCEPT !.xpubs = <<>>, !.next_account = Hardened(0)]

\* ParticipateXpub::set_network; Arc::get_mut is Some when ctx.signer holds no
\* clone of the signer.  exists: whether the network's directory exists under
\* data_dir
ParticipateSetNetwork(p, network, exists) ==
    LET changed == network # p.network
    IN  [p EXCEPT
           !.xpubs_hw = IF changed THEN MapSeq(HardwareWalletXpubsReset, @) ELSE @,
           !.xpubs_signer =
               [(IF changed THEN SignerXpubsReset(@) ELSE @) EXCEPT
                  !.signer = IF HeldByContext(@) THEN @
                             ELSE SignerSetNetwork(@, network)],
           !.network = network,
           !.network_valid = IF IsSome(p.data_dir) THEN ~exists ELSE @]

\* a handler of ParticipateXpub that leaves the step as p and returns no command
ParticipateUpdate(p, m, a) ==
    /\ ~panicked
    /\ px' = p
    /\ last' = Handled(m, a, None)
    /\ UNCHANGED <<ctx, regvars, defvars, px_tasks, px_lists, panicked>>

\* whether the directory of the network exists under the step's data_dir
ParticipateDirExists == IF IsSome(px.data_dir) THEN BOOLEAN ELSE {FALSE}

\* update(Message::Network(network))
PxNetwork(network, exists) ==
    ParticipateUpdate(ParticipateSetNetwork(px, network, exists), "ParticipateXpub::Network", <<network>>)

\* update(Message::UserActionDone(shared))
PxUserActionDone(shared) ==
    ParticipateUpdate([px EXCEPT !.shared = shared], "ParticipateXpub::UserActionDone", <<shared>>)

\* HardwareWalletXpubs::update(res), for a next_account increment accepts
HardwareWalletXpubsUpdate(h, res) ==
    IF res.ok
    THEN [h EXCEPT !.processing = FALSE,
                   !.error = None,
                   !.next_account = increment(@),
                   !.xpubs = Append(@, to_string(Unwrap(res.key)))]
    ELSE [h EXCEPT !.processing = FALSE, !.error = res.error]

\* update(Message::ImportXpub(i, res)), the result of the in-flight future
\* task that Select(i) started
PxImportXpub(task, res) ==
    /\ ~panicked
    /\ BagIn(task, px_tasks)
    /\ res \in GetExtendedPubkeyResults(task)
    /\ px_tasks' = px_tasks (-) SetToBag({task})
    /\ last' = Handled("ParticipateXpub::ImportXpub", <<task.i, res>>, None)
    /\ IF /\ task.i < Len(px.xpubs_hw)
          /\ res.ok
          /\ IncrementFails(px.xpubs_hw[task.i + 1].next_account)
       THEN /\ panicked' = TRUE
            /\ UNCHANGED <<px>>
       ELSE /\ px' = IF task.i < Len(px.xpubs_hw)
                     THEN [px EXCEPT !.xpubs_hw[task.i + 1] =
                                         HardwareWalletXpubsUpdate(@, res)]
                     ELSE px
            /\ UNCHANGED <<panicked>>
    /\ UNCHANGED <<ctx, regvars, defvars, px_lists>>

\* SignerXpubs::select(network), for a next_account increment accepts
SignerXpubsSelect(x, network) ==
    LET derivation_path == generate_derivation_path(network, x.next_account)
        text == <<Sym("["), Num(x.signer.fingerprint)>>
                    \o TrimStartM(DerivationPathToString(derivation_path))
                    \o <<Sym("]"),
                         Xkey(ExtendedPubKey(x.signer.network, x.signer.fingerprint,
                                             derivation_path))>>
    IN  [x EXCEPT !.next_account = increment(@), !.xpubs = Append(@, text)]

\* update(Message::UseHotSigner)
PxUseHotSigner ==
    IF IncrementFails(px.xpubs_signer.next_account)
    THEN /\ ~panicked
         /\ panicked' = TRUE
         /\ last' = Handled("ParticipateXpub::UseHotSigner", <<>>, None)
         /\ UNCHANGED <<ctx, regvars, defvars, pxvars>>
    ELSE /\ px.xpubs_signer.next_account.index <= MaxAccount
         /\ ParticipateUpdate(
                [px EXCEPT !.xpubs_signer = SignerXpubsSelect(@, px.network)],
                "ParticipateXpub::UseHotSigner", <<>>)

\* update(Message::Select(i)): HardwareWalletXpubs::select(i, network) of
\* entry i, if there is one
PxSelect(i) ==
    /\ ~panicked
    /\ IF i < Len(px.xpubs_hw) /\ px.xpubs_hw[i + 1].hw.supported
       THEN LET h == px.xpubs_hw[i + 1]
                task == [i |-> i,
                         kind |-> h.hw.kind,
                         fingerprint |-> Unwrap(h.hw.fingerprint),
                         path |-> generate_derivation_path(px.network, h.next_account)]
            IN  /\ BagCardinality(px_tasks) < MaxXpubs
                /\ h.next_account.index <= MaxAccount
                /\ px' = [px EXCEPT !.xpubs_hw[i + 1].processing = TRUE,
                                    !.xpubs_hw[i + 1].error = None]
                /\ px_tasks' = px_tasks (+) SetToBag({task})
                /\ last' = Handled("ParticipateXpub::Select", <<i>>, Some(task))
       ELSE /\ last' = Handled("ParticipateXpub::Select", <<i>>, None)
            /\ UNCHANGED <<px, px_tasks>>
    /\ UNCHANGED <<ctx, regvars, defvars, px_lists, panicked>>

\* the loop of ConnectedHardwareWallets: each device replaces the first entry
\* of its kind that has its fingerprint or is unsupported, or is pushed
RECURSIVE ConnectAll(_, _)
ConnectAll(xpubs_hw, hws) ==
    IF hws = <<>> THEN xpubs_hw
    ELSE LET hw == Head(hws)
             hits == {j \in 1..Len(xpubs_hw) :
                         /\ xpubs_hw[j].hw.kind = hw.kind
                         /\ \/ xpubs_hw[j].hw.fingerprint = hw.fingerprint
                            \/ ~xpubs_hw[j].hw.supported}
             first == CHOOSE j \in hits : \A k \in hits : j <= k
         IN  ConnectAll(IF hits # {}
                        THEN [xpubs_hw EXCEPT ![first].hw = hw]
                        ELSE Append(xpubs_hw, HardwareWalletXpubsNew(hw)),
                        Tail(hws))

\* update(Message::ConnectedHardwareWallets(hws)): the result of an in-flight
\* list_hardware_wallets future
PxConnectedHardwareWallets(hws) ==
    /\ ~panicked
    /\ px_lists > 0
    /\ px_lists' = px_lists - 1
    /\ px' = [px EXCEPT !.xpubs_hw = ConnectAll(@, hws)]
    /\ last' = Handled("ParticipateXpub::ConnectedHardwareWallets", <<hws>>, None)
    /\ UNCHANGED <<ctx, regvars, defvars, px_tasks, panicked>>

\* Step::load, and update(Message::Reload) which returns self.load()
PxLoad(m) ==
    /\ ~panicked
    /\ px_lists < MaxLists
    /\ px_lists' = px_lists + 1
    /\ last' = Handled(m, <<>>, Some("list_hardware_wallets"))
    /\ UNCHANGED <<ctx, regvars, defvars, px, px_tasks, panicked>>

\* Step::load_context
PxLoadContext(exists) ==
    ParticipateUpdate(
        ParticipateSetNetwork([px EXCEPT !.data_dir = Some(ctx.data_dir)],
                              ctx.network, exists),
        "ParticipateXpub::load_context", <<>>)

\* Step::apply: returns true
PxApply ==
    /\ ~panicked
    /\ ctx' = [ctx EXCEPT
                 !.network = px.network,
                 !.signer = IF px.xpubs_signer.xpubs # <<>>
                            THEN Some(px.xpubs_signer.signer)
                            ELSE None]
    /\ px' = [px EXCEPT !.xpubs_hw = <<>>]
    /\ last' = Handled("ParticipateXpub::apply", <<TRUE>>, None)
    /\ UNCHANGED <<regvars, defvars, px_tasks, px_lists, panicked>>

\* the device lists delivered to the step: the device of master 1, unlocked
\* or locked
ParticipateHardwareWallets ==
    {<<Supported("Ledger", 1)>>, <<Unsupported("Ledger")>>}

\* the collection of xpubs, the messages arriving at any time: the device
\* lists, Network, Select and its completions, UseHotSigner
NextParticipate ==
    \/ PxLoad("ParticipateXpub::load")
    \/ PxLoad("ParticipateXpub::Reload")
    \/ \E hws \in ParticipateHardwareWallets : PxConnectedHardwareWallets(hws)
    \/ \E n \in Networks : \E exists \in ParticipateDirExists : PxNetwork(n, exists)
    \/ \E i \in 0..(MaxHws - 1) : PxSelect(i)
    \/ \E task \in BagToSet(px_tasks) : \E res \in GetExtendedPubkeyResults(task) :
          /\ res.ok => Unwrap(res.key).xkey.network = "Bitcoin"
          /\ PxImportXpub(task, res)
    \/ PxUseHotSigner

SpecParticipate == InitDefine /\ [][NextParticipate]_vars

\* a device asked again after it failed: Edit on the first slots, the list
\* with the device, a text and a name typed, Select once the device has
\* answered the request before, its answers, and Close
NextRetry ==
    \/ DefClose
    \/ \E r \in BOOLEAN : DefKeyEdit(r, 0)
    \/ DefConnectedHardwareWallets(<<Supported("Ledger", 1)>>)
    \/ \E s \in AnyTexts : ModalOpen /\ DefXPubEdited(s)
    \/ \E name \in Aliases : ModalOpen /\ DefNameEdited(name)
    \/ ModalOpen /\ Modal.hws # <<>> /\ dd_xpubs = EmptyBag /\ DefSelect(0)
    \/ \E task \in BagToSet(dd_xpubs) : \E res \in GetExtendedPubkeyResults(task) :
          /\ res.ok => Unwrap(res.key).xkey.network = "Bitcoin"
          /\ DefHWXpubImported(task, res)

SpecRetry == InitDefine /\ [][NextRetry]_vars

\* the holders of the two signers: DefineDescriptor with its modal opened and
\* closed and its apply, once the signer's key is in the spending branch and
\* a device's key in the recovery branch; ParticipateXpub with UseHotSigner
\* and its apply; Network for both steps
NextHolders ==
    \/ \E n \in Networks : DefNetwork(n, FALSE)
    \/ DefKeyEdit(FALSE, 0)
    \/ DefClose
    \/ DefKeyEdited(FALSE, 0, "alice",
                    DerivedKey("Bitcoin", SignerFingerprint, StandardPath(0, Hardened(0))))
    \/ DefKeyEdited(TRUE, 0, "bob", DerivedKey("Bitcoin", 1, StandardPath(0, Hardened(0))))
    \/ DefSequenceEdited(<<"1", "0", "0", "0">>)
    \/ DefApply
    \/ \E n \in Networks : PxNetwork(n, FALSE)
    \/ PxUseHotSigner
    \/ PxApply

SpecHolders == InitDefine /\ [][NextHolders]_vars

-----------------------------------------------------------------------------
(* Claims about RegisterDescriptor *)

\* the device at index i of the step's list is supported and already registered
RegIsRegistered(i) ==
    /\ i < Len(reg.hws)
    /\ reg.hws[i + 1].supported
    /\ Unwrap(reg.hws[i + 1].fingerprint) \in reg.registered

\* C1: a Select of a supported device whose fingerprint is already in the
\* registered set returns no command (no register_wallet future is started)
\* and leaves every field of the step as it was.
C1_SelectRegisteredIsNoop ==
    [][(last'.msg = "Select" /\ RegIsRegistered(last'.args[1]))
          => /\ last'.cmd = None
             /\ reg_tasks' = reg_tasks
             /\ reg' = reg]_vars

\* C1 happens: the last message was a Select of a registered device
C1_Witness ==
    /\ last.msg = "Select"
    /\ RegIsRegistered(last.args[1])
    /\ ~panicked

\* C2: a WalletRegistered carrying an error leaves registered and hmacs as they
\* were, records the error and clears processing and chosen_hw.
C2_FailedRegistrationKeepsRegistered ==
    [][(last'.msg = "WalletRegistered" /\ ~last'.args[1].ok)
          => /\ reg'.registered = reg.registered
             /\ reg'.hmacs = reg.hmacs
             /\ reg'.error = last'.args[1].error
             /\ IsSome(reg'.error)
             /\ reg'.processing = FALSE
             /\ reg'.chosen_hw = None]_vars

\* C2 happens: a registration failed after another device had been registered
C2_Witness ==
    /\ last.msg = "WalletRegistered"
    /\ ~last.args[1].ok
    /\ reg.registered # {}
    /\ last.args[1].fingerprint \notin reg.registered

\* C3: once the WalletRegistered of a successful register_wallet for the
\* device with fingerprint f is handled, f is registered and hmacs holds
\* (f, device kind, token), whatever was handled while the future ran.
C3_SuccessIsRecorded ==
    (last.msg = "WalletRegistered" /\ last.args[1].ok)
        => /\ last.args[1].fingerprint \in reg.registered
           /\ \E j \in 1..Len(reg.hmacs) :
                 reg.hmacs[j] = <<last.args[1].fingerprint, last.args[2].kind,
                                  last.args[1].hmac>>

\* C4: at most one register_wallet future is in flight at any time.
C4_OneRegistrationInFlight == BagCardinality(reg_tasks) <= 1

-----------------------------------------------------------------------------
(* Claims about the key slot registry of DefineDescriptor *)

\* the slots of both branches, spending first
Pool == dd.spending_keys \o dd.recovery_keys

\* slot a of the pool holds a key
Populated(a) == IsSome(Pool[a].key)

\* the master fingerprint of the key of a populated slot
PoolFingerprint(a) == master_fingerprint(Unwrap(Pool[a].key))

\* the last step ran check_for_duplicate to its end
ScanDone == last.msg \in {"Edited", "Delete"} /\ ~panicked

\* C5: in every reachable state each branch has 1 <= threshold <= number of
\* slots (spending_threshold/spending_keys and recovery_threshold/recovery_keys).
C5_ThresholdInRange ==
    /\ 1 <= dd.spending_threshold
    /\ dd.spending_threshold <= Len(dd.spending_keys)
    /\ 1 <= dd.recovery_threshold
    /\ dd.recovery_threshold <= Len(dd.recovery_keys)

\* C6: after a key edit or a slot deletion, a populated slot of either branch
\* has duplicate_key set exactly when another populated slot of the combined
\* pool holds an identical key.
C6_DuplicateKeyIffTwin ==
    ScanDone =>
        \A a \in 1..Len(Pool) :
            Populated(a) =>
                (Pool[a].duplicate_key <=>
                    \E b \in 1..Len(Pool) :
                        b # a /\ Populated(b) /\ Pool[b].key = Pool[a].key)

\* C6 happens: an edit left the same key in a spending and in a recovery slot,
\* both flagged
C6_Witness ==
    /\ last.msg = "Edited"
    /\ \E a \in 1..Len(dd.spending_keys) : \E b \in 1..Len(dd.recovery_keys) :
          /\ IsSome(dd.spending_keys[a].key)
          /\ dd.spending_keys[a].key = dd.recovery_keys[b].key
          /\ dd.spending_keys[a].duplicate_key
          /\ dd.recovery_keys[b].duplicate_key

\* C7: after a duplicate-detection run, two populated slots with the same alias
\* and different master fingerprints both have duplicate_name set, whichever
\* branch each is in.
C7_DuplicateNameBothBranches ==
    ScanDone =>
        \A a, b \in 1..Len(Pool) :
            (/\ a # b
             /\ Populated(a) /\ Populated(b)
             /\ Pool[a].name = Pool[b].name
             /\ PoolFingerprint(a) # PoolFingerprint(b))
                => Pool[a].duplicate_name /\ Pool[b].duplicate_name

\* C8: after a duplicate-detection run, when all populated slots carrying an
\* alias have the same master fingerprint, none of them has duplicate_name set.
C8_SameFingerprintNeverFlagged ==
    ScanDone =>
        \A a \in 1..Len(Pool) :
            (/\ Populated(a)
             /\ \A b \in 1..Len(Pool) :
                   (Populated(b) /\ Pool[b].name = Pool[a].name)
                       => PoolFingerprint(b) = PoolFingerprint(a))
                => ~Pool[a].duplicate_name

\* C8 happens: after an edit two slots hold different keys of one master under
\* one alias
C8_Witness ==
    /\ last.msg = "Edited"
    /\ \E a, b \in 1..Len(Pool) :
          /\ a # b
          /\ Populated(a) /\ Populated(b)
          /\ Pool[a].key # Pool[b].key
          /\ Pool[a].name = Pool[b].name
          /\ PoolFingerprint(a) = PoolFingerprint(b)
          /\ ~Pool[a].duplicate_name /\ ~Pool[b].duplicate_name

\* C9: handling Edited(alias, key) leaves every populated slot of either branch
\* whose key has the master fingerprint of key under that alias; and in every
\* state two populated slots with the same master fingerprint have the same
\* alias.
C9_AliasFollowsFingerprint ==
    /\ (last.msg = "Edited" /\ ~panicked) =>
          \A a \in 1..Len(Pool) :
              (Populated(a) /\ PoolFingerprint(a) = last.args[2])
                  => Pool[a].name = last.args[1]
    /\ \A a, b \in 1..Len(Pool) :
          (Populated(a) /\ Populated(b) /\ PoolFingerprint(a) = PoolFingerprint(b))
              => Pool[a].name = Pool[b].name

\* C9 happens: an edit of a slot named a key of the master whose other key sits
\* in the other branch
C9_Witness ==
    /\ last.msg = "Edited"
    /\ \E a \in 1..Len(dd.spending_keys) : \E b \in 1..Len(dd.recovery_keys) :
          /\ IsSome(dd.spending_keys[a].key) /\ IsSome(dd.recovery_keys[b].key)
          /\ dd.spending_keys[a].key # dd.recovery_keys[b].key
          /\ master_fingerprint(Unwrap(dd.spending_keys[a].key)) = last.args[2]
          /\ master_fingerprint(Unwrap(dd.recovery_keys[b].key)) = last.args[2]
          /\ dd.recovery_keys[b].name = last.args[1]

-----------------------------------------------------------------------------
(* Claims about the key import modal *)

\* the populated slots whose key has an origin with the fingerprint and a
\* path of at least 4 elements that starts with 48'
AccountSlots(fingerprint) ==
    {a \in 1..Len(Pool) :
        /\ Populated(a)
        /\ IsSome(Unwrap(Pool[a].key).origin)
        /\ Unwrap(Unwrap(Pool[a].key).origin).fingerprint = fingerprint
        /\ Len(Unwrap(Unwrap(Pool[a].key).origin).path) >= 4
        /\ Unwrap(Unwrap(Pool[a].key).origin).path[1] = Hardened(48)}

\* element 2 of the origin path of such a slot
AccountOf(a) == Unwrap(Unwrap(Pool[a].key).origin).path[3]

\* hardened (max + 1) over those slots, hardened 0 when there is none
ExpectedAccountIndex(fingerprint) ==
    IF AccountSlots(fingerprint) = {} THEN Hardened(0)
    ELSE LET top == CHOOSE a \in AccountSlots(fingerprint) :
                        \A b \in AccountSlots(fingerprint) :
                            AccountOf(b).index <= AccountOf(a).index
         IN  Hardened(AccountOf(top).index + 1)

\* C10: the derivation path a Select of a device requests, and the one
\* UseHotSigner writes in the form, have at position 2 the hardened index
\* max + 1 over the slots of that fingerprint (48' paths of at least 4
\* elements, both branches), hardened 0 when there is none.
C10_AccountIndexIsNextHardened ==
    /\ (last.msg = "Select" /\ IsSome(last.cmd)) =>
          Unwrap(last.cmd).path[3] = ExpectedAccountIndex(Unwrap(last.cmd).fingerprint)
    /\ (last.msg = "UseHotSigner" /\ ModalOpen /\ ~panicked) =>
          Unwrap(Unwrap(from_str(Modal.form_xpub.value)).origin).path[3]
              = ExpectedAccountIndex(SignerFingerprint)

\* the key of a populated slot came from a device: its origin names the
\* device's master and it is none of the keys typed in the modal
ImportedFromDevice(a) ==
    /\ Populated(a)
    /\ IsSome(Unwrap(Pool[a].key).origin)
    /\ \E l \in ModalHardwareWallets : \E j \in 1..Len(l) :
          l[j].fingerprint = Some(PoolFingerprint(a))
    /\ \A s \in TypedTexts : from_str(s) # Pool[a].key

\* C11: two different slots never both hold keys imported from the same
\* device with the same origin path (the same account index).
C11_ImportedAccountsDiffer ==
    \A a, b \in 1..Len(Pool) :
        (/\ a # b
         /\ ImportedFromDevice(a) /\ ImportedFromDevice(b)
         /\ PoolFingerprint(a) = PoolFingerprint(b))
            => Unwrap(Unwrap(Pool[a].key).origin).path
                   # Unwrap(Unwrap(Pool[b].key).origin).path

-----------------------------------------------------------------------------
(* Claims about DefineDescriptor::apply *)

\* no slot of the branch holds a key
NoPopulatedKey(slots) == \A j \in 1..Len(slots) : slots[j].key = None

\* what makes apply reject the step before it builds any policy
Rejected(d) ==
    \/ NoPopulatedKey(d.spending_keys)
    \/ NoPopulatedKey(d.recovery_keys)
    \/ ~d.network_valid
    \/ ~ParsesAsU16(d.sequence.value)

\* C12: apply returns false and leaves ctx.descriptor as it was whenever a
\* branch has no populated key, or network_valid is false, or the timelock
\* text does not parse as a u16.
C12_ApplyRejects ==
    [][(last'.msg = "apply" /\ Rejected(dd))
          => (last'.args = <<FALSE>> /\ ctx'.descriptor = ctx.descriptor)]_vars

\* apply has just returned false in a rejected step, and the descriptor of an
\* earlier success is still in the context
C12_Witness ==
    /\ last.msg = "apply"
    /\ last.args = <<FALSE>>
    /\ Rejected(dd)
    /\ ~dd.network_valid
    /\ IsSome(ctx.descriptor)

\* the threshold of a branch exceeds the number of its slots
ThresholdExceeds(d) ==
    \/ d.spending_threshold > Len(d.spending_keys)
    \/ d.recovery_threshold > Len(d.recovery_keys)

\* C13: apply returns false and produces no descriptor whenever the
\* threshold of a branch exceeds the size of that branch's key set, whatever
\* the size, a single key included.
C13_ApplyRejectsThreshold ==
    [][(last'.msg = "apply" /\ ThresholdExceeds(dd))
          => (last'.args = <<FALSE>> /\ ctx'.descriptor = ctx.descriptor)]_vars

\* the policy is what the claim says a branch of these slots and this
\* threshold compiles to: the multipath key of the one slot, or threshold-of-n
\* over the multipath keys of all the slots
CompiledFrom(policy, slots, threshold) ==
    IF Len(slots) = 1
    THEN /\ policy.thresh = None
         /\ IsSome(slots[1].key)
         /\ policy.keys = <<MultiXPub(Unwrap(slots[1].key))>>
    ELSE /\ policy.thresh = Some(threshold)
         /\ Len(policy.keys) = Len(slots)
         /\ \A j \in 1..Len(slots) :
               /\ IsSome(slots[j].key)
               /\ policy.keys[j] = MultiXPub(Unwrap(slots[j].key))

\* C14: apply compiles a branch as its bare multipath key exactly when the
\* branch has exactly one slot, and a branch of two or more slots as a
\* threshold-of-n policy over the multipath keys of all its slots.
C14_BareKeyIffOneSlot ==
    [][(last'.msg = "apply" /\ last'.args = <<TRUE>>)
          => /\ CompiledFrom(Unwrap(ctx'.descriptor).spending,
                             dd.spending_keys, dd.spending_threshold)
             /\ CompiledFrom(Unwrap(ctx'.descriptor).recovery,
                             dd.recovery_keys, dd.recovery_threshold)]_vars

\* a populated slot of the branch has the software signer's fingerprint as
\* its origin fingerprint
HasSignerSlot(slots) ==
    \E j \in 1..Len(slots) :
        /\ IsSome(slots[j].key)
        /\ IsSome(Unwrap(slots[j].key).origin)
        /\ Unwrap(Unwrap(slots[j].key).origin).fingerprint = SignerFingerprint

\* C15: when apply succeeds on a step one of whose populated slots, in either
\* branch, has the software signer's fingerprint, ctx.signer is the step's
\* signer afterwards and ctx.descriptor is Some.
C15_SignerRetained ==
    [][(/\ last'.msg = "apply"
        /\ last'.args = <<TRUE>>
        /\ (HasSignerSlot(dd.spending_keys) \/ HasSignerSlot(dd.recovery_keys)))
          => (ctx'.signer = Some(dd.signer) /\ IsSome(ctx'.descriptor))]_vars

-----------------------------------------------------------------------------
(* Claims about the confirmation of a key *)

\* the slots of a branch other than the one at index i keep their keys
OtherKeysKept(before, after, skip) ==
    /\ Len(after) = Len(before)
    /\ \A j \in 1..Len(before) : j # skip => after[j].key = before[j].key

\* what the claim says of the step once Edited is handled: the slot the modal
\* was opened on holds the alias and the key, the modal is closed, and every
\* other slot has the key it had
EditedApplied(e) ==
    LET slots == BranchKeys(dd', e.is_recovery)
    IN  /\ e.key_index < Len(slots)
        /\ slots[e.key_index + 1].name = e.name
        /\ slots[e.key_index + 1].key = Some(e.key)
        /\ dd'.modal = None
        /\ OtherKeysKept(BranchKeys(dd, e.is_recovery), slots, e.key_index + 1)
        /\ OtherKeysKept(BranchKeys(dd, ~e.is_recovery),
                         BranchKeys(dd', ~e.is_recovery), 0)

\* C16: once the Edited message of a ConfirmXpub is handled, the slot the
\* modal was opened on holds exactly the confirmed alias and key, the modal
\* is closed, and no other slot's key has changed.
C16_EditedWritesItsSlot ==
    [][\A e \in BagToSet(dd_edits) :
          (last'.msg = "Edited" /\ dd_edits' = dd_edits (-) SetToBag({e}))
              => EditedApplied(e)]_vars

-----------------------------------------------------------------------------
(* Claims about the requests of the modal *)

\* C17: a Select handled while the modal is processing issues no request and
\* leaves the selected device as it was, so that at most one request is
\* outstanding.
C17_SelectWhileProcessingIsNoop ==
    [][(last'.msg = "Select" /\ ModalOpen /\ Modal.processing)
          => /\ last'.cmd = None
             /\ dd_xpubs' = dd_xpubs
             /\ IsSome(dd'.modal)
             /\ Unwrap(dd'.modal).chosen_hw = Modal.chosen_hw]_vars

\* the modal that issued the request in flight has been closed: no modal is
\* open, or the modal open is not processing (where Select waits for the
\* answer to the request before, a request is in flight from the open modal
\* only while it is processing)
IssuerClosed == dd_xpubs # EmptyBag /\ (~ModalOpen \/ ~Modal.processing)

\* C18: a HWXpubImported delivered after the modal that issued its request
\* was closed is discarded: no key slot, no field of the step and no field of
\* a modal opened since changes.
C18_StaleImportIsDiscarded ==
    [][(last'.msg = "HWXpubImported" /\ IssuerClosed) => dd' = dd]_vars

-----------------------------------------------------------------------------
(* Claims about the network of the keys *)

\* the tag of an extended key is the one of the network: the mainnet tag for
\* Bitcoin, the test tag for every other network
TagMatches(key, network) ==
    (key.xkey.network = "Bitcoin" /\ network = "Bitcoin")
        \/ (key.xkey.network = "Testnet" /\ network # "Bitcoin")

\* C19: in every reachable state, whatever Network and key messages came
\* before, a populated slot is valid exactly when the network tag of its key
\* matches the active network.
C19_ValidIffTagMatches ==
    \A a \in 1..Len(Pool) :
        Populated(a) => (Pool[a].valid <=> TagMatches(Unwrap(Pool[a].key), dd.network))

\* a Network message has just left a key with the test tag valid and a key
\* with the mainnet tag invalid
C19_Witness ==
    /\ last.msg = "Network"
    /\ dd.network = "Signet"
    /\ \E a, b \in 1..Len(Pool) :
          /\ Populated(a) /\ Populated(b)
          /\ Unwrap(Pool[a].key).xkey.network = "Testnet" /\ Pool[a].valid
          /\ Unwrap(Pool[b].key).xkey.network = "Bitcoin" /\ ~Pool[b].valid

-----------------------------------------------------------------------------
(* Claims about the derivation path *)

\* C20: for the network of the modal and every account index the allocator
\* produces, the path generate_derivation_path returns for a request is
\* m/48'/0'/idx'/2' on Bitcoin and m/48'/1'/idx'/2' on every other network,
\* its account element hardened.
C20_PathIsHardenedStandard ==
    (last.msg = "Select" /\ IsSome(last.cmd) /\ ModalOpen)
        => LET path == Unwrap(last.cmd).path
           IN  /\ Len(path) = 4
               /\ path[1] = Hardened(48)
               /\ path[2] = Hardened(IF Modal.network = "Bitcoin" THEN 0 ELSE 1)
               /\ path[3].hardened
               /\ path[4] = Hardened(2)

-----------------------------------------------------------------------------
(* Claims about panics *)

\* C21: no message makes a step's update or apply panic, in any reachable
\* state: every handler completes and leaves the step in a representable
\* state.
C21_NoPanic == ~panicked

-----------------------------------------------------------------------------
(* Claims about deletion *)

\* the threshold of a branch
BranchThreshold(d, is_recovery) ==
    IF is_recovery THEN d.recovery_threshold ELSE d.spending_threshold

\* C22: after DefineKey::Delete removed a slot from a branch, the branch's
\* threshold does not exceed the branch's new slot count, whatever the
\* threshold was before the deletion.
C22_DeleteClampsThreshold ==
    (last.msg = "Delete" /\ ~panicked) =>
        BranchThreshold(dd, last.args[1]) <= Len(BranchKeys(dd, last.args[1]))

-----------------------------------------------------------------------------
(* Claims about the completion of an import *)

\* the modal handled the completion res of a get_extended_pubkey request
Imported(ok) == last.msg = "HWXpubImported" /\ last.args[1].ok = ok /\ ModalOpen

\* C24: after the modal handled a successful HWXpubImported, processing is
\* false, the xpub field holds the imported key and is valid, the modal's
\* error is None even if an earlier attempt failed, and the name is the alias
\* of the key's fingerprint with edit_name false when the fingerprint has an
\* alias, edit_name being true otherwise.
C24_ImportSuccess ==
    Imported(TRUE) =>
        LET key == Unwrap(last.args[1].key)
            alias == MapGet(Modal.keys_aliases, master_fingerprint(key))
        IN  /\ ~Modal.processing
            /\ Modal.form_xpub = FormValue(to_string(key), TRUE)
            /\ Modal.error = None
            /\ IF IsSome(alias)
               THEN Modal.form_name.value = Unwrap(alias) /\ ~Modal.edit_name
               ELSE Modal.edit_name

\* C25: after the modal handled a failed HWXpubImported, the error is
\* recorded, no device is selected and processing is false, the xpub and the
\* name fields are as before, and a Select of a supported device that
\* follows issues a new request.
C25_ImportFailure ==
    [][/\ (last'.msg = "HWXpubImported" /\ ~last'.args[1].ok /\ ModalOpen)
            => LET m == Unwrap(dd'.modal)
               IN  /\ m.error = last'.args[1].error /\ IsSome(m.error)
                   /\ m.chosen_hw = None
                   /\ ~m.processing
                   /\ m.form_xpub = Modal.form_xpub
                   /\ m.form_name = Modal.form_name
                   /\ m.edit_name = Modal.edit_name
       /\ (/\ Imported(FALSE)
           /\ last'.msg = "Select"
           /\ last'.args[1] < Len(Modal.hws)
           /\ Modal.hws[last'.args[1] + 1].supported)
            => /\ IsSome(last'.cmd)
               /\ dd_xpubs' = dd_xpubs (+) SetToBag({Unwrap(last'.cmd)})
               /\ Unwrap(dd'.modal).processing
               /\ Unwrap(dd'.modal).chosen_hw = Some(last'.args[1])]_vars

\* a request issued by a Select that followed a failed import
C25_Witness ==
    /\ last.msg = "Select" /\ IsSome(last.cmd)
    /\ ModalOpen /\ IsSome(Modal.error) /\ Modal.processing

-----------------------------------------------------------------------------
(* Claims about typed keys *)

\* the text parses as an extended key with an embedded fingerprint and path
ParsesWithOrigin(s) ==
    LET key == from_str(s)
    IN  IsSome(key) /\ Unwrap(key).variant = "XPub" /\ IsSome(Unwrap(key).origin)

\* C26: a typed text that is not a successfully parsed extended key with an
\* embedded fingerprint and path is stored but marked invalid, and while the
\* xpub field is marked invalid ConfirmXpub emits no (alias, key) pair to the
\* slot.
C26_InvalidTextIsNotConfirmed ==
    [][/\ (last'.msg = "XPubEdited" /\ ModalOpen /\ ~ParsesWithOrigin(last'.args[1]))
            => /\ Unwrap(dd'.modal).form_xpub.value = last'.args[1]
               /\ ~Unwrap(dd'.modal).form_xpub.valid
       /\ (last'.msg = "ConfirmXpub" /\ ModalOpen /\ ~Modal.form_xpub.valid)
            => last'.cmd = None /\ dd_edits' = dd_edits]_vars

-----------------------------------------------------------------------------
(* Claims about the device list of the modal *)

\* the slot the open modal edits
EditedSlotOfModal == BranchKeys(dd, Modal.is_recovery)[Modal.key_index + 1]

\* chosen is the position of the first device of hws with the fingerprint,
\* None when hws lists none
IsFirstPosition(chosen, hws, fingerprint) ==
    IF \E j \in 1..Len(hws) : hws[j].fingerprint = Some(fingerprint)
    THEN /\ IsSome(chosen)
         /\ hws[Unwrap(chosen) + 1].fingerprint = Some(fingerprint)
         /\ \A j \in 1..Unwrap(chosen) : hws[j].fingerprint # Some(fingerprint)
    ELSE chosen = None

\* Edit on an existing slot opened the modal and issued one enumeration
\* request
EditOpens ==
    (/\ last'.msg = "Edit"
     /\ last'.args[2] < Len(BranchKeys(dd, last'.args[1])))
        => /\ IsSome(dd'.modal)
           /\ Unwrap(dd'.modal).is_recovery = last'.args[1]
           /\ Unwrap(dd'.modal).key_index = last'.args[2]
           /\ Unwrap(dd'.modal).chosen_hw = None
           /\ last'.cmd = Some("list_hardware_wallets")
           /\ dd_lists' = dd_lists + 1

\* C27: DefineKey::Edit on an existing slot opens the modal and issues one
\* enumeration request; when its result is handled the device list is
\* replaced by the result and, if the slot holds a key, chosen_hw is the
\* position of the device whose fingerprint is that key's master fingerprint
\* (None when none is listed), and no device is selected when the slot holds
\* no key.
C27_ListPreselectsSlotDevice ==
    [][/\ EditOpens
       /\ (last'.msg = "ConnectedHardwareWallets" /\ ModalOpen)
            => LET m == Unwrap(dd'.modal)
               IN  /\ m.hws = last'.args[1]
                   /\ IF IsSome(EditedSlotOfModal.key)
                      THEN IsFirstPosition(
                               m.chosen_hw, m.hws,
                               master_fingerprint(Unwrap(EditedSlotOfModal.key)))
                      ELSE m.chosen_hw = None]_vars

-----------------------------------------------------------------------------
(* Claims about Reload *)

\* C28: Reload, in the modal and in RegisterDescriptor, clears the device
\* list and the processing flag, and cancels no request that is in flight.
C28_ReloadClearsTracking ==
    [][(last'.msg = "Reload" /\ ~panicked')
          => /\ reg'.hws = <<>>
             /\ ~reg'.processing
             /\ reg_tasks' = reg_tasks
             /\ ModalOpen => /\ Unwrap(dd'.modal).hws = <<>>
                             /\ ~Unwrap(dd'.modal).processing
                             /\ dd_xpubs' = dd_xpubs]_vars

-----------------------------------------------------------------------------
(* Claims about the registrations recorded *)

\* C30: in every reachable state of RegisterDescriptor, hmacs holds at most
\* one entry per fingerprint and the fingerprints of hmacs are exactly the
\* registered set.
C30_OneHmacPerFingerprint ==
    /\ \A j, k \in 1..Len(reg.hmacs) :
          reg.hmacs[j][1] = reg.hmacs[k][1] => j = k
    /\ {reg.hmacs[j][1] : j \in 1..Len(reg.hmacs)} = reg.registered

-----------------------------------------------------------------------------
(* Claims about the xpubs ParticipateXpub collects *)

\* the j-th xpub of the list was derived at the hardened account j - 1 of the
\* step's network
AccountsInOrder(xpubs) ==
    \A j \in 1..Len(xpubs) :
        LET key == from_str(xpubs[j])
        IN  /\ IsSome(key)
            /\ IsSome(Unwrap(key).origin)
            /\ Unwrap(Unwrap(key).origin).path
                   = generate_derivation_path(px.network, Hardened(j - 1))

\* C23: in ParticipateXpub the xpubs collected for each device and for the
\* software signer are derived at the hardened account indices 0', 1', 2',
\* ... in collection order on the current network, over every interleaving
\* of Select, ImportXpub, UseHotSigner and Network: no index is repeated or
\* skipped in a list.
C23_AccountsIncrease ==
    /\ \A k \in 1..Len(px.xpubs_hw) : AccountsInOrder(px.xpubs_hw[k].xpubs)
    /\ AccountsInOrder(px.xpubs_signer.xpubs)

-----------------------------------------------------------------------------
(* Claims about the network of the signer *)

\* ctx.signer is a clone of the signer with the fingerprint
ContextHolds(fingerprint) ==
    IsSome(ctx.signer) /\ Unwrap(ctx.signer).fingerprint = fingerprint

\* the network set_network was called with by the Network message just
\* handled
NetworkSet == last'.args[1]

\* C29: set_network of DefineDescriptor and of ParticipateXpub always sets
\* the step's network and never fails; it sets the network of the software
\* signer exactly when the step is the only holder of the signer, and leaves
\* it as it was when an open import modal or the context holds the signer.
C29_SignerFollowsSoleHolder ==
    [][/\ last'.msg = "Network"
            => /\ ~panicked'
               /\ dd'.network = NetworkSet
               /\ dd'.signer.network =
                      IF dd.modal = None /\ ~ContextHolds(dd.signer.fingerprint)
                      THEN NetworkSet
                      ELSE dd.signer.network
       /\ last'.msg = "ParticipateXpub::Network"
            => /\ ~panicked'
               /\ px'.network = NetworkSet
               /\ px'.xpubs_signer.signer.network =
                      IF ~ContextHolds(px.xpubs_signer.signer.fingerprint)
                      THEN NetworkSet
                      ELSE px.xpubs_signer.signer.network]_vars

\* each step has called set_network for a network its signer could not
\* follow: DefineDescriptor while its modal or the context held its signer,
\* ParticipateXpub while the context holds its signer
C29_Witness ==
    /\ last.msg = "ParticipateXpub::Network"
    /\ px.network # px.xpubs_signer.signer.network
    /\ dd.network # dd.signer.network
    /\ ContextHolds(ParticipantFingerprint)

-----------------------------------------------------------------------------
(* Claims about RegisterDescriptor::apply *)

\* C31: RegisterDescriptor::apply is idempotent on the context: an apply that
\* follows an apply, no registration in between, leaves ctx.hws as the first
\* left it, so ctx.hws never holds two entries of one registered device.
C31_ApplyIsIdempotent ==
    [][(last.msg = "RegisterDescriptor::apply"
            /\ last'.msg = "RegisterDescriptor::apply")
          => ctx'.hws = ctx.hws]_vars

-----------------------------------------------------------------------------
(* Claims about DefineDescriptor::apply, valid and the timelock text *)

\* some populated slot of the step holds a key whose origin has the software
\* signer's fingerprint
SignerKeyTakesPart(d) ==
    \E r \in BOOLEAN : \E j \in 1..Len(BranchKeys(d, r)) :
        LET slot == BranchKeys(d, r)[j]
        IN  /\ IsSome(slot.key)
            /\ IsSome(Unwrap(slot.key).origin)
            /\ Unwrap(Unwrap(slot.key).origin).fingerprint = d.signer.fingerprint

\* C32: after a successful DefineDescriptor::apply, a second one after keys
\* were replaced included, ctx.signer is Some only if some populated slot's
\* origin fingerprint is the software signer's; when the signer's key takes
\* part in no slot, ctx.signer is None.
C32_SignerOnlyWhenUsed ==
    (last.msg = "apply" /\ last.args = <<TRUE>>)
        => (IsSome(ctx.signer) => SignerKeyTakesPart(dd))

\* every slot of the branch holds a key
EverySlotHoldsKey(slots) == \A j \in 1..Len(slots) : IsSome(slots[j].key)

\* C33: DefineDescriptor::valid is true exactly when both branches have at
\* least one slot, the timelock text is non-empty, and every slot of the
\* spending branch and every slot of the recovery branch holds a key.
C33_ValidIffComplete ==
    valid(dd) <=> /\ Len(dd.spending_keys) >= 1
                  /\ Len(dd.recovery_keys) >= 1
                  /\ dd.sequence.value # <<>>
                  /\ EverySlotHoldsKey(dd.spending_keys)
                  /\ EverySlotHoldsKey(dd.recovery_keys)

\* the text is empty or parses as a u16
EmptyOrU16(text) == text = <<>> \/ ParsesAsU16(text)

\* C34: in every reachable state of DefineDescriptor the stored timelock text
\* is empty or parses as a u16: a SequenceEdited with any other text leaves
\* the stored text as it was, so apply finds the timelock invalid only when
\* the text is empty.
C34_TimelockEmptyOrU16 ==
    [][/\ EmptyOrU16(dd.sequence.value)
       /\ EmptyOrU16(dd'.sequence.value)
       /\ (last'.msg = "SequenceEdited" /\ ~EmptyOrU16(last'.args[1]))
              => dd'.sequence.value = dd.sequence.value
       /\ (last'.msg = "apply" /\ ~dd'.sequence.valid)
              => dd'.sequence.value = <<>>]_vars

\* a text that is no u16 arrived while a timelock was stored, and the
\* timelock is still stored
C34_Witness ==
    /\ last.msg = "SequenceEdited"
    /\ ~EmptyOrU16(last.args[1])
    /\ dd.sequence.value = <<"1", "0", "0", "0">>

-----------------------------------------------------------------------------
(* Claims about the progress of a registration *)

\* C35: once a Select has issued a register-wallet request (processing is
\* true), the completions being delivered, processing eventually becomes
\* false and chosen_hw None; and processing is false only when no issued
\* request is still outstanding.
C35_ProcessingTracksRequests ==
    /\ reg.processing ~> (~reg.processing /\ reg.chosen_hw = None)
    /\ [](~reg.processing => reg_tasks = EmptyBag)

====
